---- MODULE Spec2Model ----
(***************************************************************************)
(* Job retrieval and ranking engine of the career-coaching system:         *)
(*   rag/load_jobs.py      source adapters, normalisers, dedupe, job store *)
(*   rag/retriever.py      in-memory job cache, embedding matrix, search   *)
(*   graph/job_matcher_agent.py   oracle re-ranking of the candidates      *)
(*   rag/crawlers/jsonld_job_crawler.py   stand-alone careers crawler      *)
(***************************************************************************)
EXTENDS Integers, Sequences, FiniteSets, TLC

VARIABLES
    env,            \* credentials read at import: JSEARCH_API_KEY, ADZUNA_*, SERPER_API_KEY
    rawFile,        \* data/jobs_raw.json
    cleanFile,      \* data/jobs_clean.json
    jobsCache,      \* retriever._JOBS_CACHE
    jobEmbeddings,  \* retriever._JOB_EMBEDDINGS
    job_matches,    \* SharedState.job_matches
    last,           \* what the last call did: its arguments, result and the calls it made
    fnIn,           \* inputs of the function under study (function-level specifications)
    fnOut           \* its result

vars == <<env, rawFile, cleanFile, jobsCache, jobEmbeddings, job_matches, last, fnIn, fnOut>>

-----------------------------------------------------------------------------
(* Bounds *)

\* records one adapter returns during one refresh (store specification)
MaxRaw == 1
\* length of each of the two lists handed to _dedupe_jobs (dedupe specification)
MaxDedupeLen == 2
\* postings in the snapshot the ranked searches run over (ranking specification)
MaxPool == 6
\* tokens of an arbitrary oracle text (ranking specification)
MaxContentLen == 4
\* entries of a well-formed oracle list (ranking specification)
MaxEntries == 2
\* links on a careers page (crawl specification)
MaxLinks == 3

-----------------------------------------------------------------------------
(* Values *)

\* JSON null / absent key (dict.get returns None)
Null == "null"

\* Python truthiness of a string-or-None value: None and "" are falsy
Falsy(x) == x \in {Null, ""}

SeqMap(F(_), s) == [i \in 1..Len(s) |-> F(s[i])]

SeqsUpTo(S, n) == UNION {[1..m -> S] : m \in 0..n}

Min(a, b) == IF a <= b THEN a ELSE b

Max(a, b) == IF a >= b THEN a ELSE b

\* canonical job record (the dict built by every normaliser)
Job(id, title, publisher, description) ==
    [job_id |-> id, title |-> title, publisher |-> publisher, description |-> description]

-----------------------------------------------------------------------------
(* rag/load_jobs.py: normalisers *)

\* hashlib.sha1(text).hexdigest()[:20]: a deterministic digest of the text
StableIdFromText(text) == "sha1(" \o text \o ")"

\* one iteration of _clean_jobs_jsearch for a record that has a job_id
CleanJSearchRecord(j) ==
    Job(j.job_id,
        IF Falsy(j.job_title) THEN "" ELSE j.job_title,
        IF Falsy(j.job_publisher) THEN "jsearch" ELSE j.job_publisher,
        IF Falsy(j.job_description) THEN "" ELSE j.job_description)

JSearchHasId(j) == ~Falsy(j.job_id)

CleanJobsJsearch(raw_jobs) == SeqMap(CleanJSearchRecord, SelectSeq(raw_jobs, JSearchHasId))

\* an Adzuna normaliser that derives the id from the record's text and ignores the
\* native id
CleanAdzunaRecordByContent(j) ==
    Job("adzuna:" \o StableIdFromText((IF Falsy(j.title) THEN "" ELSE j.title) \o "|"
                                       \o (IF Falsy(j.description) THEN "" ELSE j.description)),
        IF Falsy(j.title) THEN "" ELSE j.title, "adzuna",
        IF Falsy(j.description) THEN "" ELSE j.description)

\* one iteration of _clean_jobs_adzuna
CleanAdzunaRecord(j) ==
    LET title == IF Falsy(j.title) THEN "" ELSE j.title
        description == IF Falsy(j.description) THEN "" ELSE j.description
        redirect_url == IF Falsy(j.redirect_url) THEN "" ELSE j.redirect_url
        company == IF Falsy(j.company) THEN "" ELSE j.company
        location == IF Falsy(j.location) THEN "" ELSE j.location
        job_id == IF j.id # Null
                  THEN "adzuna:" \o j.id
                  ELSE "adzuna:" \o StableIdFromText(title \o "|" \o company \o "|"
                                                        \o location \o "|" \o redirect_url)
    IN  Job(job_id, title, "adzuna", description)

CleanJobsAdzuna(raw_jobs) == SeqMap(CleanAdzunaRecord, raw_jobs)

-----------------------------------------------------------------------------
(* rag/load_jobs.py: _dedupe_jobs *)

RECURSIVE DedupeFrom(_, _, _, _)
DedupeFrom(jobs, i, seen, out) ==
    IF i > Len(jobs) THEN out
    ELSE LET jid == jobs[i].job_id
         IN  IF Falsy(jid) \/ jid \in seen
             THEN DedupeFrom(jobs, i + 1, seen, out)
             ELSE DedupeFrom(jobs, i + 1, seen \cup {jid}, Append(out, jobs[i]))

\* a dedupe that forgets to consult the seen set
DedupeJobsNoSeen(jobs) == SelectSeq(jobs, LAMBDA j : ~Falsy(j.job_id))

DedupeJobs(jobs) == DedupeFrom(jobs, 1, {}, <<>>)

-----------------------------------------------------------------------------
(* rag/load_jobs.py: the job store *)

\* json.dumps(cleaned, indent=2) and json.loads of the file's text: the text holds
\* one entry per record; a text that is not JSON (ok = FALSE) makes json.loads raise
EncodeJob(j) == <<j.job_id, j.title, j.publisher, j.description>>

DecodeJob(t) == Job(t[1], t[2], t[3], t[4])

JsonDumps(jobs) == [ok |-> TRUE, items |-> SeqMap(EncodeJob, jobs)]

JsonLoadsOk(text) == text.ok

JsonLoads(text) == SeqMap(DecodeJob, text.items)

NoFile == [exists |-> FALSE, text |-> [ok |-> FALSE, items |-> <<>>]]

FileOf(jobs) == [exists |-> TRUE, text |-> JsonDumps(jobs)]

\* jobs_raw.json: whether it has been written (its payload is read by nothing)
NoRawFile == [exists |-> FALSE]

\* the queries a refresh uses when its argument is None or empty
DefaultQueries ==
    << "software engineer internship in New York", "data science internship in New York",
       "machine learning engineer entry level in New York",
       "backend developer internship remote", "ai engineer entry level remote" >>

\* _fetch_jobs_from_jsearch / _fetch_jobs_from_adzuna as seen by the store: without the
\* credential no request is made; otherwise the network decides (a list, or an
\* exception of requests.get / resp.json that the adapter does not catch)
FetchJobsFromJsearch(e, net) ==
    IF ~e.jsearch THEN [raised |-> FALSE, items |-> <<>>] ELSE net

FetchJobsFromAdzuna(e, net) ==
    IF ~e.adzuna THEN [raised |-> FALSE, items |-> <<>>] ELSE net

\* a crawl layer that does not look at the credential
CrawlLayerAlways(e, net) ==
    IF net.stage = "picker_raises" THEN [jobs |-> <<>>, calls |-> <<"company_picker">>]
    ELSE IF net.stage = "crawl_raises"
         THEN [jobs |-> <<>>, calls |-> <<"company_picker", "search_oracle", "crawler">>]
    ELSE [jobs |-> net.jobs, calls |-> <<"company_picker", "search_oracle", "crawler">>]

\* the crawl layer of a refresh: company picker, discovery, crawl, inside one try
CrawlLayer(e, net) ==
    IF ~e.serper THEN [jobs |-> <<>>, calls |-> <<>>]
    ELSE IF net.stage = "picker_raises" THEN [jobs |-> <<>>, calls |-> <<"company_picker">>]
    ELSE IF net.stage = "crawl_raises"
         THEN [jobs |-> <<>>, calls |-> <<"company_picker", "search_oracle", "crawler">>]
    ELSE [jobs |-> net.jobs, calls |-> <<"company_picker", "search_oracle", "crawler">>]

\* a load that never trusts the file
UseSnapshotNever(cf, force_refresh) == FALSE

\* the test of line 665
UseSnapshot(cf, force_refresh) == cf.exists /\ ~force_refresh

\* a store that appends the sources without deduplicating
CanonicalSetNoDedupe(cleaned) == cleaned

\* line 713
CanonicalSet(cleaned) == DedupeJobs(cleaned)

\* what one call of load_and_clean_jobs did: the files after it, whether it raised,
\* whether it ran a refresh to the end, the list it returned, the adapters it invoked
\* in order, the queries it used and the number of records it merged before line 713
Stored(rf, cf, raised, refreshed, result, calls, used, merged) ==
    [rawFile |-> rf, cleanFile |-> cf, raised |-> raised, refreshed |-> refreshed,
     result |-> result, calls |-> calls, used |-> used, merged |-> merged]

\* lines 713-718: dedupe, write jobs_clean.json, return
Persist(canonical, calls, used, merged) ==
    Stored([exists |-> TRUE], FileOf(canonical), FALSE, TRUE, canonical, calls, used, merged)

\* a refresh that merges what it fetched into the snapshot it found
RefreshIncremental(rf, cf, raw_jsearch, raw_adzuna, crawl, used) ==
    IF raw_jsearch.raised THEN Stored(rf, cf, TRUE, FALSE, <<>>, <<"jsearch">>, used, 0)
    ELSE IF raw_adzuna.raised
    THEN Stored(rf, cf, TRUE, FALSE, <<>>, <<"jsearch", "adzuna">>, used, 0)
    ELSE Persist(CanonicalSet(JsonLoads(cf.text) \o CleanJobsJsearch(raw_jsearch.items)
                              \o CleanJobsAdzuna(raw_adzuna.items) \o crawl.jobs),
                 <<"jsearch", "adzuna">> \o crawl.calls, used,
                 Len(CleanJobsJsearch(raw_jsearch.items)) + Len(raw_adzuna.items)
                 + Len(crawl.jobs))

\* lines 688-718: the refresh, given what the two API adapters and the crawl layer gave
Refresh(rf, cf, raw_jsearch, raw_adzuna, crawl, used) ==
    IF raw_jsearch.raised THEN Stored(rf, cf, TRUE, FALSE, <<>>, <<"jsearch">>, used, 0)
    ELSE IF raw_adzuna.raised
    THEN Stored(rf, cf, TRUE, FALSE, <<>>, <<"jsearch", "adzuna">>, used, 0)
    ELSE Persist(CanonicalSet(CleanJobsJsearch(raw_jsearch.items)
                              \o CleanJobsAdzuna(raw_adzuna.items) \o crawl.jobs),
                 <<"jsearch", "adzuna">> \o crawl.calls, used,
                 Len(CleanJobsJsearch(raw_jsearch.items)) + Len(raw_adzuna.items)
                 + Len(crawl.jobs))

\* load_and_clean_jobs(force_refresh, queries)
LoadAndCleanJobs(e, rf, cf, force_refresh, queries, net) ==
    IF UseSnapshot(cf, force_refresh) /\ JsonLoadsOk(cf.text)
    THEN Stored(rf, cf, FALSE, FALSE, JsonLoads(cf.text), <<>>, <<>>, 0)
    ELSE Refresh(rf, cf, FetchJobsFromJsearch(e, net.jsearch),
                 FetchJobsFromAdzuna(e, net.adzuna), CrawlLayer(e, net.crawl),
                 IF queries = <<>> THEN DefaultQueries ELSE queries)

-----------------------------------------------------------------------------
(* rag/retriever.py *)

\* the external embedding service (OpenAIEmbeddings): a vector per text
Vec(text) ==
    CASE text \in {"Engineer\nbuild", "Skills: python"} -> <<1, 0>>
      [] text \in {"Analyst\nreport", "Skills: excel"} -> <<0, 1>>
      [] text = "Designer\ndraw" -> <<-1, 0>>
      [] text = "Architect\nplan" -> <<4, 3>>
      [] text = "Tester\ncheck" -> <<3, 4>>
      [] text = "Writer\nwrite" -> <<-3, 4>>
      [] text = "Trainer\nteach" -> <<-4, 3>>
      [] OTHER -> <<0, 0>>

\* 1 / 1e-8, the epsilon of line 133
EpsInv == 100000000

Dot(a, b) == a[1] * b[1] + a[2] * b[2]

\* np.linalg.norm of a vector whose norm is a whole number
Norm(a) == CHOOSE n \in 0..5 : n * n = Dot(a, a)

\* lines 131-135: dot / (|row| * |q| + 1e-8), kept as the fraction num / den with
\* num = dot and den = |row| * |q| + 1e-8, both scaled by 1e8
Cosine(row, q) == [num |-> Dot(row, q) * EpsInv, den |-> Norm(row) * Norm(q) * EpsInv + 1]

\* a <= b for two such fractions (positive denominators)
FracLeq(a, b) == (a.num \div EpsInv) * b.den <= (b.num \div EpsInv) * a.den

\* str.strip() of the query: blank when it holds only whitespace
Strip(query) == IF query \in {"", " ", "\n "} THEN "" ELSE query

Unset == [set |-> FALSE, v |-> <<>>]

Set(v) == [set |-> TRUE, v |-> v]

\* the files and the two process-wide caches
World(rf, cf, jc, je) == [rawFile |-> rf, cleanFile |-> cf, jobsCache |-> jc, jobEmbeddings |-> je]

Loaded(w, raised, jobs, events, calls) ==
    [w |-> w, raised |-> raised, jobs |-> jobs, events |-> events, calls |-> calls]

\* lines 57-59 and 69-71: the refresh _load_jobs started has returned r
LoadJobsRefreshed(w, r, events) ==
    IF r.raised
    THEN Loaded(w, TRUE, <<>>, events, r.calls)
    ELSE Loaded([w EXCEPT !.rawFile = r.rawFile, !.cleanFile = r.cleanFile,
                          !.jobsCache = Set(r.result)],
                FALSE, r.result, events, r.calls)

\* _load_jobs(): the world after the call, the list it returned (or that the refresh
\* it started raised), and what it touched
LoadJobs(e, w, net) ==
    IF w.jobsCache.set
    THEN Loaded(w, FALSE, w.jobsCache.v, <<>>, <<>>)
    ELSE IF w.cleanFile.exists /\ JsonLoadsOk(w.cleanFile.text)
    THEN Loaded([w EXCEPT !.jobsCache = Set(JsonLoads(w.cleanFile.text))], FALSE,
                JsonLoads(w.cleanFile.text), <<"read_snapshot">>, <<>>)
    ELSE LoadJobsRefreshed(w, LoadAndCleanJobs(e, w.rawFile, w.cleanFile, TRUE, <<>>, net),
                           IF w.cleanFile.exists THEN <<"read_snapshot", "refresh">>
                           ELSE <<"refresh">>)

ProjectionText(j) == j.title \o "\n" \o j.description

Embedded(w, raised, job_vecs, events, calls) ==
    [w |-> w, raised |-> raised, job_vecs |-> job_vecs, events |-> events, calls |-> calls]

\* lines 87-93: one vector per posting, in order
EmbedDocuments(jobs) == [i \in 1..Len(jobs) |-> Vec(ProjectionText(jobs[i]))]

\* lines 82-101: _load_jobs has returned l; docsFail says whether embed_documents raises
EnsureEmbeddingsLoaded(l, docsFail) ==
    IF l.raised THEN Embedded(l.w, TRUE, <<>>, l.events, l.calls)
    ELSE IF l.jobs = <<>>
    THEN Embedded([l.w EXCEPT !.jobEmbeddings = Set(<<>>)], FALSE, <<>>, l.events, l.calls)
    ELSE IF docsFail
    THEN Embedded(l.w, TRUE, <<>>, Append(l.events, "embed_documents"), l.calls)
    ELSE Embedded([l.w EXCEPT !.jobEmbeddings = Set(EmbedDocuments(l.jobs))], FALSE,
                  EmbedDocuments(l.jobs), Append(l.events, "embed_documents"), l.calls)

\* an ensure that recomputes the matrix on every call
EnsureEmbeddingsNoReuse(e, w, net, docsFail) ==
    EnsureEmbeddingsLoaded(LoadJobs(e, w, net), docsFail)

\* _ensure_embeddings()
EnsureEmbeddings(e, w, net, docsFail) ==
    IF w.jobEmbeddings.set
    THEN Embedded(w, FALSE, w.jobEmbeddings.v, <<>>, <<>>)
    ELSE EnsureEmbeddingsLoaded(LoadJobs(e, w, net), docsFail)

RECURSIVE OrdersOf(_, _)
\* the orderings of the row indexes in S by descending similarity
OrdersOf(sims, S) ==
    IF S = {} THEN {<<>>}
    ELSE UNION { {<<i>> \o rest : rest \in OrdersOf(sims, S \ {i})}
                 : i \in {i \in S : \A j \in S : FracLeq(sims[j], sims[i])} }

\* np.argsort(-sims): every ordering of the row indexes by descending similarity
\* (the order of equal similarities is the sort's choice)
ArgsortDesc(sims) == OrdersOf(sims, 1..Len(sims))

\* Python's seq[:k]
SliceTo(s, k) ==
    IF k >= 0 THEN SubSeq(s, 1, Min(k, Len(s))) ELSE SubSeq(s, 1, Max(0, Len(s) + k))

\* a top-k that forgets to cut the ordering
TopIndexesAll(order, k, n) == order

\* lines 138-139
TopIndexes(order, k, n) == SliceTo(order, Min(k, n))

Scored(j, score) == [job |-> j, score |-> score]

Found(w, raised, result, events, calls) ==
    [w |-> w, raised |-> raised, result |-> result, events |-> events, calls |-> calls]

\* the posting itself with a "score" key written into it
WithScore(j, score) == [f \in DOMAIN j \cup {"score"} |-> IF f = "score" THEN score ELSE j[f]]

\* a ranking that writes the score into the cached postings instead of into copies
TopOfSimsInPlace(w, jobs, sims, k, events, calls) ==
    { Found([w EXCEPT !.jobsCache =
                Set([i \in 1..Len(jobs) |->
                       IF \E p \in 1..Len(TopIndexes(order, k, Len(jobs))) :
                             TopIndexes(order, k, Len(jobs))[p] = i
                       THEN WithScore(jobs[i], sims[i]) ELSE jobs[i]])],
            FALSE,
            SeqMap(LAMBDA idx : Scored(jobs[idx], sims[idx]), TopIndexes(order, k, Len(jobs))),
            events, calls)
      : order \in ArgsortDesc(sims) }

\* lines 131-147: the similarities, the ordering and the copies with their score
TopOfSims(w, jobs, sims, k, events, calls) ==
    { Found(w, FALSE,
            SeqMap(LAMBDA idx : Scored(jobs[idx], sims[idx]), TopIndexes(order, k, Len(jobs))),
            events, calls)
      : order \in ArgsortDesc(sims) }

\* lines 120-135: _ensure_embeddings has returned en
TopOfEmbedded(jobs, en, query, k, queryFail, events, calls) ==
    IF en.raised THEN {Found(en.w, TRUE, <<>>, events \o en.events, calls)}
    ELSE IF en.job_vecs = <<>> THEN {Found(en.w, FALSE, <<>>, events \o en.events, calls)}
    ELSE IF queryFail
    THEN {Found(en.w, TRUE, <<>>, Append(events \o en.events, "embed_query"), calls)}
    ELSE TopOfSims(en.w, jobs,
                   [i \in 1..Len(en.job_vecs) |-> Cosine(en.job_vecs[i], Vec(Strip(query)))],
                   k, Append(events \o en.events, "embed_query"), calls)

\* lines 114-119: _load_jobs has returned l
TopOfLoaded(e, l, query, k, net, docsFail, queryFail) ==
    IF l.raised THEN {Found(l.w, TRUE, <<>>, l.events, l.calls)}
    ELSE IF l.jobs = <<>> THEN {Found(l.w, FALSE, <<>>, l.events, l.calls)}
    ELSE TopOfEmbedded(l.jobs, EnsureEmbeddings(e, l.w, net, docsFail), query, k, queryFail,
                       l.events, l.calls)

\* a search that loads the postings before it looks at the query
GetTopJobsLoadFirst(e, w, query, k, net, docsFail, queryFail) ==
    IF Strip(query) = ""
    THEN {Found(LoadJobs(e, w, net).w, FALSE, <<>>, LoadJobs(e, w, net).events, <<>>)}
    ELSE TopOfLoaded(e, LoadJobs(e, w, net), query, k, net, docsFail, queryFail)

\* get_top_jobs(query, k): the possible outcomes (one per ordering of equal
\* similarities); docsFail / queryFail say whether the embedding calls raise
GetTopJobs(e, w, query, k, net, docsFail, queryFail) ==
    IF Strip(query) = ""
    THEN {Found(w, FALSE, <<>>, <<>>, <<>>)}
    ELSE TopOfLoaded(e, LoadJobs(e, w, net), query, k, net, docsFail, queryFail)

\* the k job_matcher_node asks for (line 144)
CandidateK == 15

\* a reset that drops the job list and keeps the matrix
ResetJobsCacheListOnly(w) == [w EXCEPT !.jobsCache = Unset]

\* reset_jobs_cache()
ResetJobsCache(w) == [w EXCEPT !.jobsCache = Unset, !.jobEmbeddings = Unset]

-----------------------------------------------------------------------------
(* graph/job_matcher_agent.py: the oracle's text and _parse_matches *)

\* The oracle's text is a sequence of tokens: the JSON punctuation "[", "]", ",",
\* "{" (an object's opening brace and key) and "}", "scalar" (a JSON number, string,
\* true, false or null), "obj" (one complete {job_id, score, rationale} object) and
\* "prose" (words that are not JSON).
Absent == "<absent>"

\* a job_id that is a JSON number, and one that is a JSON list
NumberId == "<number>"
ListId == "<list>"

NoScore == [t |-> Absent, num |-> 0, den |-> 1]

Tok(k) == [k |-> k, job_id |-> Null, score |-> NoScore, rationale |-> Absent]

Obj(job_id, score, rationale) == [k |-> "obj", job_id |-> job_id, score |-> score, rationale |-> rationale]

\* a score given as a JSON number / as a JSON string
NumScore(num, den) == [t |-> "number", num |-> num, den |-> den]
StrScore(num, den) == [t |-> "numeric_string", num |-> num, den |-> den]
NullScore == [t |-> Null, num |-> 0, den |-> 1]
WordScore == [t |-> "word", num |-> 0, den |-> 1]

RECURSIVE JsonValue(_)
RECURSIVE JsonElems(_)
\* json.loads accepts the tokens as one value
JsonValue(t) ==
    \/ Len(t) = 1 /\ t[1].k \in {"scalar", "obj"}
    \/ /\ Len(t) >= 2
       /\ t[1].k = "[" /\ t[Len(t)].k = "]"
       /\ (Len(t) = 2 \/ JsonElems(SubSeq(t, 2, Len(t) - 1)))
    \/ /\ Len(t) >= 3
       /\ t[1].k = "{" /\ t[Len(t)].k = "}"
       /\ JsonValue(SubSeq(t, 2, Len(t) - 1))

\* the tokens are one or more values separated by commas
JsonElems(t) ==
    \/ JsonValue(t)
    \/ \E i \in 2..(Len(t) - 1) :
          /\ t[i].k = ","
          /\ JsonValue(SubSeq(t, 1, i - 1))
          /\ JsonElems(SubSeq(t, i + 1, Len(t)))

\* the Python value of one list element, as far as the ranker reads it: a dict (with
\* its job_id, score and rationale, absent in a dict that has other keys) or not a dict
ElemOf(t) ==
    IF Len(t) = 1 /\ t[1].k = "obj" THEN [t[1] EXCEPT !.k = "dict"]
    ELSE IF t[1].k = "{" THEN Tok("dict")
    ELSE Tok("not_dict")

RECURSIVE ElemsOf(_)
ElemsOf(t) ==
    IF t = <<>> THEN <<>>
    ELSE IF JsonValue(t) THEN <<ElemOf(t)>>
    ELSE LET i == CHOOSE i \in 2..(Len(t) - 1) :
                     /\ t[i].k = ","
                     /\ JsonValue(SubSeq(t, 1, i - 1))
                     /\ JsonElems(SubSeq(t, i + 1, Len(t)))
         IN  <<ElemOf(SubSeq(t, 1, i - 1))>> \o ElemsOf(SubSeq(t, i + 1, Len(t)))

\* json.loads(text) succeeded and gave a list
ParsesAsList(t) == JsonValue(t) /\ t[1].k = "["

ListOf(t) == ElemsOf(SubSeq(t, 2, Len(t) - 1))

\* content.find("[") and content.rfind("]") + 1, as token positions (0: not found)
FindOpen(content) ==
    IF \E i \in 1..Len(content) : content[i].k = "["
    THEN CHOOSE i \in 1..Len(content) :
            content[i].k = "[" /\ \A j \in 1..(i - 1) : content[j].k # "["
    ELSE 0

RFindClose(content) ==
    IF \E i \in 1..Len(content) : content[i].k = "]"
    THEN CHOOSE i \in 1..Len(content) :
            content[i].k = "]" /\ \A j \in (i + 1)..Len(content) : content[j].k # "]"
    ELSE 0

\* lines 91-93: content[start:end] when 0 <= start < end, else nothing to try
BracketSlice(content) ==
    LET start == FindOpen(content)
        end == RFindClose(content)
    IN  IF start >= 1 /\ start < end THEN SubSeq(content, start, end) ELSE <<>>

\* _parse_matches(content)
ParseMatches(content) ==
    IF content = <<>> THEN <<>>
    ELSE IF ParsesAsList(content) THEN ListOf(content)
    ELSE IF BracketSlice(content) # <<>> /\ ParsesAsList(BracketSlice(content))
         THEN ListOf(BracketSlice(content))
    ELSE <<>>

-----------------------------------------------------------------------------
(* graph/job_matcher_agent.py: job_matcher_node, lines 164-222 *)

GenericRationale ==
    "Baseline match based on semantic similarity between this job and your skills, experience summary, and years of experience."

JobMatch(job_id, title, score, rationale) ==
    [job_id |-> job_id, title |-> title, score |-> score, rationale |-> rationale]

CandidateIds(candidates) == {candidates[i].job.job_id : i \in 1..Len(candidates)}

\* by_id[job_id] of line 176 (a dict comprehension keeps the last record of an id)
ById(candidates, job_id) ==
    candidates[CHOOSE i \in 1..Len(candidates) :
                  /\ candidates[i].job.job_id = job_id
                  /\ \A j \in (i + 1)..Len(candidates) : candidates[j].job.job_id # job_id]

\* what one iteration of the loop of lines 180-201 does with entry m:
\* "raise", "skip" or "append"
EntryOutcome(candidates, m) ==
    IF m.k # "dict" THEN "raise"                              \* m.get: AttributeError
    ELSE IF Falsy(m.job_id) THEN "skip"                        \* line 182
    ELSE IF m.job_id = ListId THEN "raise"                     \* by_id.get: unhashable
    ELSE IF m.job_id \notin CandidateIds(candidates) THEN "skip"   \* line 186
    ELSE IF m.score.t \in {Null, "word"} THEN "raise"          \* float(None), float("high")
    ELSE IF m.rationale = Null THEN "raise"                    \* JobMatch(rationale=None)
    ELSE "append"

\* lines 189-201
MatchOfEntry(candidates, m) ==
    LET job == ById(candidates, m.job_id)
        final_score == IF m.score.t = Absent THEN job.score
                       ELSE [num |-> m.score.num, den |-> m.score.den]
        rationale == IF m.rationale = Absent THEN "" ELSE m.rationale
    IN  JobMatch(m.job_id, job.job.title, final_score, rationale)

\* lines 209-222
MatchOfCandidate(j) == JobMatch(j.job.job_id, j.job.title, j.score, GenericRationale)

RECURSIVE LlmPath(_, _, _, _)
LlmPath(candidates, match_dicts, i, out) ==
    IF i > Len(match_dicts) THEN [raised |-> FALSE, path |-> "llm", at |-> 0, job_matches |-> out]
    ELSE LET o == EntryOutcome(candidates, match_dicts[i])
         IN  IF o = "raise"
             THEN [raised |-> TRUE, path |-> "llm", at |-> i, job_matches |-> <<>>]
             ELSE IF o = "skip" THEN LlmPath(candidates, match_dicts, i + 1, out)
             ELSE LlmPath(candidates, match_dicts, i + 1,
                          Append(out, MatchOfEntry(candidates, match_dicts[i])))

\* the size of the fallback list
FallbackTopK == 5

\* a fallback that forgets the cut at five
FallbackPathAll(candidates) ==
    [raised |-> FALSE, path |-> "fallback", at |-> 0,
     job_matches |-> SeqMap(MatchOfCandidate, candidates)]

\* lines 203-222
FallbackPath(candidates) ==
    [raised |-> FALSE, path |-> "fallback", at |-> 0,
     job_matches |-> SeqMap(MatchOfCandidate,
                            SubSeq(candidates, 1, Min(FallbackTopK, Len(candidates))))]

\* the branch of line 178 taken for a parsed list
TakesLlmPath(match_dicts) == match_dicts # <<>>

\* lines 176-222: the parsed list is in hand
RankParsed(candidates, match_dicts) ==
    IF TakesLlmPath(match_dicts)
    THEN LlmPath(candidates, match_dicts, 1, <<>>)
    ELSE FallbackPath(candidates)

\* lines 164-222: oracle = [fail, content]; a failed call leaves content = ""
RankMatches(candidates, oracle) ==
    RankParsed(candidates, ParseMatches(IF oracle.fail THEN <<>> ELSE oracle.content))

-----------------------------------------------------------------------------
(* graph/job_matcher_agent.py: job_matcher_node as a whole *)

NoProfile == [present |-> FALSE, raw_text |-> "", skills |-> "", job_search_queries |-> <<>>]

Profile(raw_text, skills, queries) ==
    [present |-> TRUE, raw_text |-> raw_text, skills |-> skills, job_search_queries |-> queries]

\* _build_query_from_resume: the skills line, else the head of the raw text (the
\* summary and years lines are appended the same way as the skills line)
BuildQueryFromResume(rp) ==
    IF ~rp.present THEN ""
    ELSE IF rp.skills # "" THEN "Skills: " \o rp.skills
    ELSE rp.raw_text

\* what one run of the node did; at is the position of the oracle entry at which the
\* ranking loop raised (0: it did not)
Outcome(w, matches, raised, stage, candidates, events, calls, at) ==
    [w |-> w, job_matches |-> matches, raised |-> raised, stage |-> stage,
     candidates |-> candidates, events |-> events, calls |-> calls, at |-> at]

\* lines 164-225: the candidates are in hand and the ranking returned rk
NodeRanked(g, matches, calls, rk) ==
    IF rk.raised
    THEN Outcome(g.w, matches, TRUE, "rank_raised", g.result, g.events, calls \o g.calls,
                 rk.at)
    ELSE Outcome(g.w, rk.job_matches, FALSE, rk.path, g.result, g.events, calls \o g.calls, 0)

\* lines 144-147: get_top_jobs returned (or raised) g
NodeOfFound(g, matches, oracle, calls) ==
    IF g.raised
    THEN Outcome(g.w, matches, TRUE, "search_raised", <<>>, g.events, calls \o g.calls, 0)
    ELSE IF g.result = <<>>
    THEN Outcome(g.w, matches, FALSE, "no_candidates", <<>>, g.events, calls \o g.calls, 0)
    ELSE NodeRanked(g, matches, calls, RankMatches(g.result, oracle))

\* lines 144-225, from the world w the refresh step left
NodeSearch(e, w, matches, rp, net, docsFail, queryFail, oracle, calls) ==
    { NodeOfFound(g, matches, oracle, calls)
      : g \in GetTopJobs(e, w, BuildQueryFromResume(rp), CandidateK, net, docsFail, queryFail) }

\* lines 133-135: the forced refresh returned (or raised) r, then the caches are reset
NodeRefreshed(e, w, matches, rp, net, docsFail, queryFail, oracle, r) ==
    IF r.raised
    THEN {Outcome(w, matches, TRUE, "refresh_raised", <<>>, <<>>, r.calls, 0)}
    ELSE NodeSearch(e, ResetJobsCache([w EXCEPT !.rawFile = r.rawFile,
                                                !.cleanFile = r.cleanFile]),
                    matches, rp, net, docsFail, queryFail, oracle, r.calls)

\* job_matcher_node(state): the possible outcomes. stage tells where the node left:
\* "no_resume", "no_query", "refresh_raised", "search_raised", "no_candidates",
\* "rank_raised", "llm" or "fallback"
JobMatcherNode(e, w, matches, rp, net, docsFail, queryFail, oracle) ==
    IF ~rp.present \/ Strip(rp.raw_text) = ""
    THEN {Outcome(w, matches, FALSE, "no_resume", <<>>, <<>>, <<>>, 0)}
    ELSE IF Strip(BuildQueryFromResume(rp)) = ""
    THEN {Outcome(w, matches, FALSE, "no_query", <<>>, <<>>, <<>>, 0)}
    ELSE IF rp.job_search_queries # <<>>
    THEN NodeRefreshed(e, w, matches, rp, net, docsFail, queryFail, oracle,
                       LoadAndCleanJobs(e, w.rawFile, w.cleanFile, TRUE,
                                        rp.job_search_queries, net))
    ELSE NodeSearch(e, w, matches, rp, net, docsFail, queryFail, oracle, <<>>)

-----------------------------------------------------------------------------
(* What the outside world can answer *)

JSearchRecord(job_id, title, description, publisher) ==
    [job_id |-> job_id, job_title |-> title, job_description |-> description,
     job_publisher |-> publisher]

AdzunaRecord(id, title, description) ==
    [id |-> id, title |-> title, description |-> description, company |-> "Acme",
     location |-> Null, redirect_url |-> "https://adzuna.example/r"]

JS1 == JSearchRecord("j1", "Engineer", "build", Null)
JS2 == JSearchRecord("adzuna:1", "Analyst", "report", "LinkedIn")
JS0 == JSearchRecord(Null, "Designer", "draw", Null)
AZ1 == AdzunaRecord("1", "Designer", "draw")
AZ0 == AdzunaRecord(Null, "Analyst", "report")
L1 == Job("lever:" \o StableIdFromText("acme|Analyst|https://jobs.lever.co/acme/1"),
          "Analyst", "lever", "report")

Fetched(items) == [raised |-> FALSE, items |-> items]
FetchRaised == [raised |-> TRUE, items |-> <<>>]
Crawled(jobs) == [stage |-> "ok", jobs |-> jobs]

Net(js, az, cr) == [jsearch |-> js, adzuna |-> az, crawl |-> cr]

\* the answers when nothing is asked
NoNet == Net(Fetched(<<>>), Fetched(<<>>), Crawled(<<>>))

\* the answers a refresh of the store specification can get
StoreNets ==
    { Net(js, az, cr) :
        js \in {FetchRaised} \cup {Fetched(x) : x \in SeqsUpTo({JS0, JS1, JS2}, MaxRaw)},
        az \in {FetchRaised} \cup {Fetched(x) : x \in SeqsUpTo({AZ0, AZ1}, MaxRaw)},
        cr \in {[stage |-> "picker_raises", jobs |-> <<>>], [stage |-> "crawl_raises", jobs |-> <<L1>>],
                Crawled(<<>>), Crawled(<<L1, L1>>)} }

\* the answers a refresh of the system specification can get
SearchNets ==
    { Net(js, az, cr) :
        js \in {FetchRaised, Fetched(<<>>), Fetched(<<JS0, JS1>>), Fetched(<<JS2>>)},
        az \in {Fetched(<<>>), Fetched(<<AZ1>>)},
        cr \in {Crawled(<<>>), Crawled(<<L1>>)} }

Env(jsearch, adzuna, serper) == [jsearch |-> jsearch, adzuna |-> adzuna, serper |-> serper]
StoreEnvs == {Env(TRUE, TRUE, TRUE), Env(TRUE, TRUE, FALSE), Env(FALSE, TRUE, TRUE),
              Env(TRUE, FALSE, FALSE)}
FullEnv == Env(TRUE, TRUE, TRUE)

QueryArgs == {<<>>, <<"data analyst in Boston">>}

SearchQueries == {"", " ", "Skills: python", "cv"}

\* which embedding call fails during one search
EmbedFailures == {"none", "embed_documents", "embed_query"}

SearchKs == {-1, 0, 1, 2, CandidateK}

-----------------------------------------------------------------------------
(* The system: state and operations *)

TheWorld == World(rawFile, cleanFile, jobsCache, jobEmbeddings)

SetWorld(w) ==
    /\ rawFile' = w.rawFile
    /\ cleanFile' = w.cleanFile
    /\ jobsCache' = w.jobsCache
    /\ jobEmbeddings' = w.jobEmbeddings

\* whether _load_jobs would have to start a refresh
LoadWouldRefresh(w) ==
    ~w.jobsCache.set /\ ~(w.cleanFile.exists /\ JsonLoadsOk(w.cleanFile.text))

NetsFor(need, Nets) == IF need THEN Nets ELSE {NoNet}

InitState(Envs) ==
    /\ env \in Envs
    /\ rawFile = NoRawFile
    /\ cleanFile = NoFile
    /\ jobsCache = Unset
    /\ jobEmbeddings = Unset
    /\ job_matches = <<>>
    /\ last = [op |-> "start"]
    /\ fnOut = <<>>

InitWith(Envs) == InitState(Envs) /\ fnIn = <<>>

\* load_and_clean_jobs(force_refresh, queries)
LoadAndClean(Nets) ==
    \E force_refresh \in BOOLEAN, queries \in QueryArgs :
      \E net \in NetsFor(~(UseSnapshot(cleanFile, force_refresh) /\ JsonLoadsOk(cleanFile.text)), Nets) :
        LET r == LoadAndCleanJobs(env, rawFile, cleanFile, force_refresh, queries, net)
        IN  /\ rawFile' = r.rawFile
            /\ cleanFile' = r.cleanFile
            /\ last' = [op |-> "load_and_clean_jobs", force_refresh |-> force_refresh,
                        queries |-> queries, raised |-> r.raised, refreshed |-> r.refreshed,
                        result |-> r.result, calls |-> r.calls, used |-> r.used,
                        merged |-> r.merged]
            /\ UNCHANGED <<env, jobsCache, jobEmbeddings, job_matches, fnIn, fnOut>>

\* the snapshot file is damaged from outside (truncated, overwritten)
CorruptSnapshot ==
    /\ cleanFile.exists /\ cleanFile.text.ok
    /\ cleanFile' = [exists |-> TRUE, text |-> [ok |-> FALSE, items |-> <<>>]]
    /\ last' = [op |-> "corrupt"]
    /\ UNCHANGED <<env, rawFile, jobsCache, jobEmbeddings, job_matches, fnIn, fnOut>>

\* reset_jobs_cache()
Reset ==
    /\ SetWorld(ResetJobsCache(TheWorld))
    /\ last' = [op |-> "reset_jobs_cache"]
    /\ UNCHANGED <<env, job_matches, fnIn, fnOut>>

\* get_top_jobs(query, k)
Search(Nets) ==
    \E query \in SearchQueries, k \in SearchKs, fails \in EmbedFailures :
      \E net \in NetsFor(Strip(query) # "" /\ LoadWouldRefresh(TheWorld), Nets) :
        \E g \in GetTopJobs(env, TheWorld, query, k, net, fails = "embed_documents",
                            fails = "embed_query") :
          /\ SetWorld(g.w)
          /\ last' = [op |-> "get_top_jobs", query |-> query, k |-> k, raised |-> g.raised,
                      result |-> g.result, events |-> g.events, calls |-> g.calls]
          /\ UNCHANGED <<env, job_matches, fnIn, fnOut>>

\* get_job_description_by_id(job_id)
DescriptionById(jobs, job_id) ==
    IF \E i \in 1..Len(jobs) : jobs[i].job_id = job_id
    THEN jobs[CHOOSE i \in 1..Len(jobs) :
                 jobs[i].job_id = job_id /\ \A j \in 1..(i - 1) : jobs[j].job_id # job_id].description
    ELSE Null

Describe(Nets) ==
    \E job_id \in {"j1", "adzuna:1", "nope"} :
      \E net \in NetsFor(LoadWouldRefresh(TheWorld), Nets) :
        LET l == LoadJobs(env, TheWorld, net)
        IN  /\ SetWorld(l.w)
            /\ last' = [op |-> "get_job_description_by_id", job_id |-> job_id,
                        raised |-> l.raised,
                        result |-> IF l.raised THEN Null ELSE DescriptionById(l.jobs, job_id),
                        events |-> l.events, calls |-> l.calls]
            /\ UNCHANGED <<env, job_matches, fnIn, fnOut>>

Init == InitWith({FullEnv})

Next ==
    \/ LoadAndClean(SearchNets)
    \/ CorruptSnapshot
    \/ Reset
    \/ Search(SearchNets)
    \/ Describe(SearchNets)

Spec == Init /\ [][Next]_vars

InitStore == InitWith(StoreEnvs)

NextStore ==
    \/ LoadAndClean(StoreNets)
    \/ CorruptSnapshot

SpecStore == InitStore /\ [][NextStore]_vars

-----------------------------------------------------------------------------
(* _dedupe_jobs on the concatenation of two lists *)

\* canonical records with three ids, each id in two versions, and one without an id
DedupeRecords ==
    {Job(id, title, "src", "") : id \in {"a", "b", "c"}, title \in {"v1", "v2"}}
    \cup {Job("", "v1", "src", "")}

InitDedupe ==
    /\ InitState({FullEnv})
    /\ fnIn \in [A : SeqsUpTo(DedupeRecords, MaxDedupeLen),
                 B : SeqsUpTo(DedupeRecords, MaxDedupeLen)]

\* _dedupe_jobs(A + B)
DedupeConcat ==
    /\ last.op = "start"
    /\ fnOut' = DedupeJobs(fnIn.A \o fnIn.B)
    /\ last' = [op |-> "_dedupe_jobs"]
    /\ UNCHANGED <<env, rawFile, cleanFile, jobsCache, jobEmbeddings, job_matches, fnIn>>

NextDedupe == DedupeConcat

SpecDedupe == InitDedupe /\ [][NextDedupe]_vars

-----------------------------------------------------------------------------
(* job_matcher_node over a snapshot of postings and an oracle response *)

\* the snapshot's postings; to the query "Skills: python" their cosine similarities are
\* 0, 1, -0.8, 0.8, -1, 0.6, -0.6
Pool ==
    << Job("p1", "Analyst", "jsearch", "report"), Job("p2", "Engineer", "jsearch", "build"),
       Job("p3", "Trainer", "adzuna", "teach"), Job("p4", "Architect", "adzuna", "plan"),
       Job("p5", "Designer", "lever", "draw"), Job("p6", "Tester", "greenhouse", "check"),
       Job("p7", "Writer", "careers_crawl", "write") >>

\* the entries an oracle list is made of: well-formed ones with a known, an unknown, a
\* missing, an empty, a numeric or a list-valued job_id, with a numeric, textual, null or
\* missing score, with or without rationale, and an element that is not an object
RankEntries ==
    { Obj("p1", NumScore(95, 100), "strong fit"), Obj("p2", NoScore, Absent),
      Obj("p2", StrScore(70, 100), "good"), Obj("zzz", NumScore(50, 100), "stretch"),
      Obj(Null, NumScore(50, 100), "no id"), Obj("", NumScore(50, 100), "empty id"),
      Obj(NumberId, NumScore(50, 100), "numeric id"), Obj(ListId, NumScore(50, 100), "list id"),
      Obj("p1", NullScore, "null score"), Obj("p1", WordScore, "worded score"),
      Obj("p1", NumScore(95, 100), Null), Tok("scalar") }

\* the tokens an arbitrary oracle text is made of
ContentAlphabet ==
    { Tok("["), Tok("]"), Tok(","), Tok("{"), Tok("}"), Tok("prose"), Tok("scalar"),
      Obj("p1", NumScore(95, 100), "strong fit"), Obj("zzz", NumScore(50, 100), "stretch") }

RECURSIVE CommaJoin(_)
CommaJoin(es) ==
    IF es = <<>> THEN <<>>
    ELSE IF Len(es) = 1 THEN es
    ELSE <<es[1], Tok(",")>> \o CommaJoin(Tail(es))

\* the text of a JSON list of the entries
ListText(es) == <<Tok("[")>> \o CommaJoin(es) \o <<Tok("]")>>

Resp(content) == [fail |-> FALSE, content |-> content]

OracleDown == [fail |-> TRUE, content |-> <<>>]

\* what the scoring oracle can answer
RankOracles ==
    {OracleDown}
    \cup {Resp(c) : c \in SeqsUpTo(ContentAlphabet, MaxContentLen)}
    \cup {Resp(ListText(es)) : es \in SeqsUpTo(RankEntries, MaxEntries)}

InitRank ==
    /\ env = FullEnv
    /\ rawFile = [exists |-> TRUE]
    /\ \E n \in 1..Min(MaxPool, Len(Pool)) : cleanFile = FileOf(SubSeq(Pool, 1, n))
    /\ jobsCache = Unset
    /\ jobEmbeddings = Unset
    /\ job_matches = <<>>
    /\ last = [op |-> "start"]
    /\ fnIn \in [rp : {Profile("cv", "python", <<>>)}, oracle : RankOracles]
    /\ fnOut = <<>>

\* job_matcher_node(state) for the resume profile and the oracle response of fnIn
MatchJobs ==
    /\ last.op = "start"
    /\ \E o \in JobMatcherNode(env, TheWorld, job_matches, fnIn.rp, NoNet, FALSE, FALSE,
                               fnIn.oracle) :
          /\ SetWorld(o.w)
          /\ job_matches' = o.job_matches
          /\ last' = [op |-> "job_matcher_node", raised |-> o.raised, stage |-> o.stage,
                      candidates |-> o.candidates, events |-> o.events, calls |-> o.calls,
                      at |-> o.at]
          /\ UNCHANGED <<env, fnIn, fnOut>>

NextRank == MatchJobs

SpecRank == InitRank /\ [][NextRank]_vars

-----------------------------------------------------------------------------
(* The crawl of careers targets: load_jobs._crawl_targets_for_jobs and
   crawlers/jsonld_job_crawler.crawl_careers_targets *)

\* A URL is the sequence of the pieces of its text between "/" characters:
\* "https://jobs.lever.co/acme" is <<"https:", "", "jobs.lever.co", "acme">> and
\* "https://jobs.lever.co/" is <<"https:", "", "jobs.lever.co", "">>.
RECURSIVE UrlText(_)
UrlText(u) ==
    IF u = <<>> THEN ""
    ELSE IF Len(u) = 1 THEN u[1]
    ELSE u[1] \o "/" \o UrlText(Tail(u))

\* str.lower() of one piece
Lower(seg) ==
    CASE seg = "JOBS.LEVER.CO" -> "jobs.lever.co"
      [] seg = "Acme" -> "acme"
      [] seg = "Engineer" -> "engineer"
      [] OTHER -> seg

\* str.strip() of a URL: one made of whitespace only is empty
StripUrl(u) == IF u = <<" ">> THEN <<>> ELSE u

\* the positions of the pieces of u that are host and are followed by a "/"
HostAt(u, host) == {i \in 1..(Len(u) - 1) : Lower(u[i]) = host}

\* u.split(host + "/", 1)[1].split("/", 1)[0].strip() or None
SlugAfter(u, host) ==
    LET i == CHOOSE i \in HostAt(u, host) : \A j \in HostAt(u, host) : i <= j
    IN  IF Strip(Lower(u[i + 1])) = "" THEN Null ELSE Strip(Lower(u[i + 1]))

\* _detect_ats(url)
DetectAts(url) ==
    IF HostAt(StripUrl(url), "jobs.lever.co") # {}
    THEN [ats |-> "lever", slug |-> SlugAfter(StripUrl(url), "jobs.lever.co")]
    ELSE IF HostAt(StripUrl(url), "boards.greenhouse.io") # {}
    THEN [ats |-> "greenhouse", slug |-> SlugAfter(StripUrl(url), "boards.greenhouse.io")]
    ELSE [ats |-> "unknown", slug |-> Null]

\* the guard of lines 576 and 579 (314 and 320 in the stand-alone crawler)
TakesAtsPath(d) == d.ats \in {"lever", "greenhouse"} /\ d.slug # Null

\* _domain(url): the host of an absolute URL, lower-cased
Domain(u) == IF Len(u) >= 3 /\ u[2] = "" THEN Lower(u[3]) ELSE ""

\* a piece that contains one of the keywords of line 602
Keyword(seg) ==
    Lower(seg) \in {"jobs", "careers", "careers#open", "positions", "openings",
                    "jobs.lever.co", "boards.greenhouse.io"}

\* _normalize_url(url): the URL without its fragment
NormalizeUrl(u) == [i \in 1..Len(u) |-> IF u[i] = "careers#open" THEN "careers" ELSE u[i]]

\* what the network answers: web.start is the page at a start URL, web.sub[u] the page
\* at a linked URL (the server does not see fragments), web.api the ATS endpoint; a
\* page's links are its href values resolved against the page's URL (urljoin)
PageOf(web, u) == web.sub[NormalizeUrl(u)]

\* one network or scraper call of a crawl: its kind, what it was aimed at and the
\* position of the target it was made for
Ev(kind, at, target) == [kind |-> kind, at |-> at, target |-> target]

Trail(log, jobs) == [log |-> log, jobs |-> jobs]

KeepsItem(it) == ~(it.title = "" /\ it.url = "")

\* _crawl_lever / _crawl_greenhouse of load_jobs.py: tag is "lever" or "gh"
AtsJobs(tag, publisher, slug, api) ==
    IF ~api.ok THEN <<>>
    ELSE SeqMap(LAMBDA it : Job(tag \o ":" \o StableIdFromText(slug \o "|" \o it.title
                                                               \o "|" \o it.url),
                                it.title, publisher, it.description),
                SelectSeq(api.items, KeepsItem))

\* _stable_id(*parts) of the stand-alone crawler: the non-empty parts, lower-cased
StableId(a, b, c) ==
    "sha1(" \o Lower(a) \o (IF b = "" THEN "" ELSE "|" \o Lower(b))
            \o (IF c = "" THEN "" ELSE "|" \o Lower(c)) \o ")"

\* _crawl_lever / _crawl_greenhouse of the stand-alone crawler
AtsJobsStandalone(tag, publisher, slug, api) ==
    IF ~api.ok THEN <<>>
    ELSE SeqMap(LAMBDA it : Job(tag \o ":" \o StableId(slug, it.title, it.url),
                                it.title, publisher, it.description),
                SelectSeq(api.items, KeepsItem))

\* the ATS call for a URL detected as d, by either crawler
AtsCall(standalone, d, web) ==
    IF standalone
    THEN AtsJobsStandalone(IF d.ats = "lever" THEN "lever" ELSE "gh", d.ats, d.slug, web.api)
    ELSE AtsJobs(IF d.ats = "lever" THEN "lever" ELSE "gh", d.ats, d.slug, web.api)

\* _postings_to_clean_jobs / _jsonld_to_jobs
PostingsToCleanJobs(standalone, postings, company, fallback_url) ==
    SeqMap(LAMBDA p :
             Job("crawl:" \o (IF standalone
                              THEN StableId(company, p.title,
                                            IF Falsy(p.url) THEN UrlText(fallback_url) ELSE p.url)
                              ELSE StableIdFromText(company \o "|" \o p.title \o "|"
                                      \o (IF Falsy(p.url) THEN UrlText(fallback_url) ELSE p.url))),
                 p.title, "careers_crawl", p.description),
           postings)

\* lines 598-603: the page's links on the start URL's domain that hold a keyword
InternalJobLinks(start_url, links) ==
    SelectSeq(links, LAMBDA u : Domain(u) = Domain(start_url)
                                /\ \E i \in 1..Len(u) : Keyword(u[i]))

\* the link-follow budget of _crawl_targets_for_jobs (follow_links) and of
\* crawl_careers_targets (max_pages)
FollowLinksBudget == 2
MaxPages == 3

ApiEvent(d, ti) == Ev(d.ats \o "_api", d.slug, ti)

FetchEvent(u, ti) == Ev("fetch_html", UrlText(u), ti)

ScrapeEvent(u, ti) == Ev("jsonld", UrlText(u), ti)

RECURSIVE FollowLinks(_, _, _, _, _, _, _, _)
\* lines 605-639: the loop over the links of the start page of target ti
FollowLinks(links, i, seen, followed, company, web, ti, tr) ==
    IF i > Len(links) THEN tr
    ELSE IF links[i] \in seen
    THEN FollowLinks(links, i + 1, seen, followed, company, web, ti, tr)
    ELSE IF TakesAtsPath(DetectAts(links[i]))
    THEN IF followed + 1 >= FollowLinksBudget
         THEN Trail(Append(tr.log, ApiEvent(DetectAts(links[i]), ti)),
                    tr.jobs \o AtsCall(FALSE, DetectAts(links[i]), web))
         ELSE FollowLinks(links, i + 1, seen \cup {links[i]}, followed + 1, company, web, ti,
                          Trail(Append(tr.log, ApiEvent(DetectAts(links[i]), ti)),
                                tr.jobs \o AtsCall(FALSE, DetectAts(links[i]), web)))
    ELSE IF ~PageOf(web, links[i]).ok
    THEN FollowLinks(links, i + 1, seen \cup {links[i]}, followed, company, web, ti,
                     Trail(Append(tr.log, FetchEvent(links[i], ti)), tr.jobs))
    ELSE IF followed + 1 >= FollowLinksBudget
         THEN Trail(tr.log \o <<FetchEvent(links[i], ti), ScrapeEvent(links[i], ti)>>,
                    tr.jobs \o PostingsToCleanJobs(FALSE, PageOf(web, links[i]).postings,
                                                   company, links[i]))
         ELSE FollowLinks(links, i + 1, seen \cup {links[i]}, followed + 1, company, web, ti,
                          Trail(tr.log \o <<FetchEvent(links[i], ti), ScrapeEvent(links[i], ti)>>,
                                tr.jobs \o PostingsToCleanJobs(FALSE,
                                             PageOf(web, links[i]).postings, company, links[i])))

RECURSIVE FirstDistinct(_, _, _, _)
\* lines 273-283 of the stand-alone crawler: the first max_pages distinct candidates
FirstDistinct(candidates, i, seen, out) ==
    IF i > Len(candidates) THEN out
    ELSE IF candidates[i] \in seen THEN FirstDistinct(candidates, i + 1, seen, out)
    ELSE IF Len(out) + 1 >= MaxPages THEN Append(out, candidates[i])
    ELSE FirstDistinct(candidates, i + 1, seen \cup {candidates[i]}, Append(out, candidates[i]))

\* _light_follow_links(start_url, html, max_pages)
LightFollowLinks(start_url, links) ==
    FirstDistinct(InternalJobLinks(start_url, SeqMap(NormalizeUrl, links)), 1, {}, <<>>)

RECURSIVE VisitLinks(_, _, _, _, _, _)
\* lines 339-355 of the stand-alone crawler
VisitLinks(links, i, company, web, ti, tr) ==
    IF i > Len(links) THEN tr
    ELSE IF TakesAtsPath(DetectAts(links[i]))
    THEN VisitLinks(links, i + 1, company, web, ti,
                    Trail(Append(tr.log, ApiEvent(DetectAts(links[i]), ti)),
                          tr.jobs \o AtsCall(TRUE, DetectAts(links[i]), web)))
    ELSE IF ~PageOf(web, links[i]).ok
    THEN VisitLinks(links, i + 1, company, web, ti,
                    Trail(Append(tr.log, FetchEvent(links[i], ti)), tr.jobs))
    ELSE VisitLinks(links, i + 1, company, web, ti,
                    Trail(tr.log \o <<FetchEvent(links[i], ti), ScrapeEvent(links[i], ti)>>,
                          tr.jobs \o PostingsToCleanJobs(TRUE, PageOf(web, links[i]).postings,
                                                         company, links[i])))

\* a crawl that goes on to the links of a start page that carried postings
CrawlTargetNoEarlyExit(standalone, start_url, company, web, ti, tr) ==
    IF start_url = <<>> THEN tr
    ELSE IF TakesAtsPath(DetectAts(start_url))
    THEN Trail(Append(tr.log, ApiEvent(DetectAts(start_url), ti)),
               tr.jobs \o AtsCall(standalone, DetectAts(start_url), web))
    ELSE IF ~web.start.ok THEN Trail(Append(tr.log, FetchEvent(start_url, ti)), tr.jobs)
    ELSE IF standalone
    THEN VisitLinks(LightFollowLinks(start_url, web.start.links), 1, company, web, ti,
                    Trail(tr.log \o <<FetchEvent(start_url, ti), ScrapeEvent(start_url, ti)>>,
                          tr.jobs \o PostingsToCleanJobs(standalone, web.start.postings,
                                                         company, start_url)))
    ELSE FollowLinks(InternalJobLinks(start_url, web.start.links), 1, {}, 0, company, web, ti,
                     Trail(tr.log \o <<FetchEvent(start_url, ti), ScrapeEvent(start_url, ti)>>,
                           tr.jobs \o PostingsToCleanJobs(standalone, web.start.postings,
                                                          company, start_url)))

\* one iteration of the loop over the targets (lines 568-639; 306-355 in the stand-alone
\* crawler) for target ti with start URL start_url, from the trail tr
CrawlTarget(standalone, start_url, company, web, ti, tr) ==
    IF start_url = <<>> THEN tr
    ELSE IF TakesAtsPath(DetectAts(start_url))
    THEN Trail(Append(tr.log, ApiEvent(DetectAts(start_url), ti)),
               tr.jobs \o AtsCall(standalone, DetectAts(start_url), web))
    ELSE IF ~web.start.ok THEN Trail(Append(tr.log, FetchEvent(start_url, ti)), tr.jobs)
    ELSE IF web.start.postings # <<>>
    THEN Trail(tr.log \o <<FetchEvent(start_url, ti), ScrapeEvent(start_url, ti)>>,
               tr.jobs \o PostingsToCleanJobs(standalone, web.start.postings, company, start_url))
    ELSE IF standalone
    THEN VisitLinks(LightFollowLinks(start_url, web.start.links), 1, company, web, ti,
                    Trail(tr.log \o <<FetchEvent(start_url, ti), ScrapeEvent(start_url, ti)>>,
                          tr.jobs))
    ELSE FollowLinks(InternalJobLinks(start_url, web.start.links), 1, {}, 0, company, web, ti,
                     Trail(tr.log \o <<FetchEvent(start_url, ti), ScrapeEvent(start_url, ti)>>,
                           tr.jobs))

RECURSIVE CrawlFrom(_, _, _, _, _)
CrawlFrom(standalone, targets, ti, web, tr) ==
    IF ti > Len(targets) THEN tr
    ELSE CrawlFrom(standalone, targets, ti + 1, web,
                   CrawlTarget(standalone, StripUrl(targets[ti].careers_url),
                               targets[ti].company, web, ti, tr))

\* _crawl_targets_for_jobs(targets, follow_links=2) of load_jobs.py
CrawlTargetsForJobs(targets, web) == CrawlFrom(FALSE, targets, 1, web, Trail(<<>>, <<>>))

\* the final dedupe of lines 357-367
DedupeCrawled(tr) == Trail(tr.log, DedupeJobs(tr.jobs))

\* crawl_careers_targets(targets, max_pages=3) of the stand-alone crawler
CrawlCareersTargets(targets, web) ==
    DedupeCrawled(CrawlFrom(TRUE, targets, 1, web, Trail(<<>>, <<>>)))

-----------------------------------------------------------------------------
(* The crawl specification: targets and a web *)

Target(url) == [company |-> "Acme", careers_url |-> url]

LeverBoard == <<"https:", "", "JOBS.LEVER.CO", "Acme">>
LeverRoot == <<"https:", "", "jobs.lever.co", "">>
LeverBare == <<"https:", "", "jobs.lever.co">>
GreenhouseBoard == <<"https:", "", "boards.greenhouse.io", "acme">>
GreenhouseRoot == <<"https:", "", "boards.greenhouse.io", "">>
CareersPage == <<"https:", "", "acme.com", "careers">>
BlankUrl == <<" ">>

CrawlTargetLists ==
    {<<>>, <<Target(CareersPage), Target(CareersPage)>>, <<Target(LeverBoard), Target(CareersPage)>>}
    \cup {<<Target(u)>> : u \in {LeverBoard, LeverRoot, LeverBare, GreenhouseBoard,
                                 GreenhouseRoot, CareersPage, BlankUrl}}

JobsLink == <<"https:", "", "acme.com", "jobs">>
PositionsLink == <<"https:", "", "acme.com", "positions">>
FragmentLink == <<"https:", "", "acme.com", "careers#open">>
BoardLink == <<"https:", "", "jobs.lever.co", "acme">>
ExternalLink == <<"https:", "", "other.com", "jobs">>
AboutLink == <<"https:", "", "acme.com", "about">>

LinkAlphabet == {JobsLink, PositionsLink, FragmentLink, BoardLink, ExternalLink, AboutLink}

PageFail == [ok |-> FALSE, postings |-> <<>>, links |-> <<>>]

Page(postings, links) == [ok |-> TRUE, postings |-> postings, links |-> links]

Posting1 == [title |-> "Engineer", url |-> Null, description |-> "build"]

Item1 == [title |-> "Engineer", url |-> "https://jobs.lever.co/acme/1", description |-> "build"]

\* the linked pages a crawl can fetch and what they answer
SubPages ==
    { f \in [{JobsLink, PositionsLink, CareersPage}
              -> {PageFail, Page(<<>>, <<>>), Page(<<Posting1>>, <<>>)}] :
        f[CareersPage] = Page(<<>>, <<>>) /\ f[PositionsLink] # Page(<<>>, <<>>) }

Webs ==
    [start : {PageFail, Page(<<Posting1>>, <<>>), Page(<<Posting1>>, <<JobsLink>>)}
             \cup {Page(<<>>, ls) : ls \in SeqsUpTo(LinkAlphabet, MaxLinks)},
     sub : SubPages,
     api : {[ok |-> FALSE, items |-> <<>>], [ok |-> TRUE, items |-> <<Item1>>]}]

InitCrawl ==
    /\ InitState({FullEnv})
    /\ fnIn \in [targets : CrawlTargetLists, web : Webs]

\* _crawl_targets_for_jobs(targets)
CrawlForJobs ==
    /\ last.op = "start"
    /\ fnOut' = CrawlTargetsForJobs(fnIn.targets, fnIn.web).jobs
    /\ last' = [op |-> "_crawl_targets_for_jobs",
                log |-> CrawlTargetsForJobs(fnIn.targets, fnIn.web).log]
    /\ UNCHANGED <<env, rawFile, cleanFile, jobsCache, jobEmbeddings, job_matches, fnIn>>

\* crawl_careers_targets(targets)
CrawlCareers ==
    /\ last.op = "start"
    /\ fnOut' = CrawlCareersTargets(fnIn.targets, fnIn.web).jobs
    /\ last' = [op |-> "crawl_careers_targets",
                log |-> CrawlCareersTargets(fnIn.targets, fnIn.web).log]
    /\ UNCHANGED <<env, rawFile, cleanFile, jobsCache, jobEmbeddings, job_matches, fnIn>>

NextCrawl == CrawlForJobs \/ CrawlCareers

SpecCrawl == InitCrawl /\ [][NextCrawl]_vars

-----------------------------------------------------------------------------
(* Properties *)

IdsOf(jobs) == {jobs[i].job_id : i \in 1..Len(jobs)}

\* the job_ids of the list are non-empty and pairwise distinct
DistinctIds(jobs) ==
    /\ \A i \in 1..Len(jobs) : ~Falsy(jobs[i].job_id)
    /\ \A i, j \in 1..Len(jobs) : i # j => jobs[i].job_id # jobs[j].job_id

\* C1: a load_and_clean_jobs(force_refresh=False) made while the snapshot persisted by
\* a completed refresh is on disk returns exactly the content of that snapshot, invokes
\* no adapter, whatever its queries argument, and leaves both files as they were.
C1_CacheHitReturnsSnapshot ==
    [][ ( /\ cleanFile.exists /\ JsonLoadsOk(cleanFile.text)
          /\ last'.op = "load_and_clean_jobs" /\ ~last'.force_refresh )
        => ( /\ ~last'.raised
             /\ last'.result = JsonLoads(cleanFile.text)
             /\ last'.calls = <<>>
             /\ cleanFile' = cleanFile /\ rawFile' = rawFile ) ]_vars

\* a non-forced load with custom queries answered from a snapshot of two postings
C1_Witness ==
    /\ last.op = "load_and_clean_jobs" /\ ~last.force_refresh /\ ~last.refreshed
    /\ last.queries # <<>> /\ ~last.raised /\ last.calls = <<>>
    /\ Len(last.result) = 2 /\ cleanFile.text = JsonDumps(last.result)

\* C2: for lists A and B of canonical records, each with non-empty and internally
\* distinct job_ids, sharing N ids, _dedupe_jobs(A + B) has len(A) + len(B) - N records:
\* all of A in order, then the records of B whose id A does not hold, in order (so each
\* id keeps the record of its first occurrence and first-seen order is preserved).
C2_DedupeConcat ==
    (last.op = "_dedupe_jobs" /\ DistinctIds(fnIn.A) /\ DistinctIds(fnIn.B))
    => /\ Len(fnOut) = Len(fnIn.A) + Len(fnIn.B)
                       - Cardinality(IdsOf(fnIn.A) \cap IdsOf(fnIn.B))
       /\ fnOut = fnIn.A \o SelectSeq(fnIn.B, LAMBDA j : j.job_id \notin IdsOf(fnIn.A))

\* two lists of two records sharing one id, under different versions of the record
C2_Witness ==
    /\ last.op = "_dedupe_jobs"
    /\ fnIn.A = <<Job("a", "v1", "src", ""), Job("b", "v1", "src", "")>>
    /\ fnIn.B = <<Job("b", "v2", "src", ""), Job("c", "v2", "src", "")>>
    /\ Len(fnOut) = 3

\* C3: the canonical set in jobs_clean.json, every list load_and_clean_jobs returns and
\* the list held in the retriever's job cache have pairwise distinct job_ids and no
\* record without a job_id.
C3_CanonicalIdsDistinct ==
    /\ (cleanFile.exists /\ JsonLoadsOk(cleanFile.text))
          => DistinctIds(JsonLoads(cleanFile.text))
    /\ (last.op = "load_and_clean_jobs" /\ ~last.raised) => DistinctIds(last.result)
    /\ jobsCache.set => DistinctIds(jobsCache.v)

\* a refresh merged more records than it kept while the job cache held two postings
C3_Witness ==
    /\ last.op = "load_and_clean_jobs" /\ last.refreshed
    /\ last.merged > Len(last.result) /\ Len(last.result) >= 2
    /\ jobsCache.set /\ Len(jobsCache.v) >= 2

\* the last call was a get_top_jobs with a non-empty query that returned, over a posting
\* set of at least one posting (the set the retriever holds after the call)
SearchReturned ==
    /\ last.op = "get_top_jobs" /\ Strip(last.query) # "" /\ ~last.raised
    /\ jobsCache.set /\ Len(jobsCache.v) >= 1

\* the cosine similarity of a posting to the query of the last search
SimilarityOf(j) == Cosine(Vec(ProjectionText(j)), Vec(Strip(last.query)))

\* the result lists distinct postings of the set, each with its similarity as score,
\* in descending similarity, and no posting left out is more similar than a listed one
RankedBySimilarity(result, jobs) ==
    /\ \A i \in 1..Len(result) :
          /\ \E p \in 1..Len(jobs) : jobs[p] = result[i].job
          /\ result[i].score = SimilarityOf(result[i].job)
    /\ \A i, j \in 1..Len(result) : i # j => result[i].job.job_id # result[j].job.job_id
    /\ \A i \in 1..(Len(result) - 1) : FracLeq(result[i + 1].score, result[i].score)
    /\ \A i \in 1..Len(result), p \in 1..Len(jobs) :
          (\A j \in 1..Len(result) : result[j].job # jobs[p])
             => FracLeq(SimilarityOf(jobs[p]), result[i].score)

\* C8, as stated: for every integer k, a search with a non-empty query over n >= 1
\* postings returns exactly min(k, n) postings, the most similar ones, in descending
\* similarity, each with its similarity as score.
C8_TopKAnyInteger ==
    SearchReturned
    => /\ Len(last.result) = Min(last.k, Len(jobsCache.v))
       /\ RankedBySimilarity(last.result, jobsCache.v)

\* C8, amended: the same for every integer k >= 0.
C8_TopKNonNegative ==
    (SearchReturned /\ last.k >= 0)
    => /\ Len(last.result) = Min(last.k, Len(jobsCache.v))
       /\ RankedBySimilarity(last.result, jobsCache.v)

\* k = 2 over three postings of three different similarities: the two best, in order
C8_Witness ==
    /\ SearchReturned /\ last.k = 2 /\ Len(jobsCache.v) = 3
    /\ Len(last.result) = 2
    /\ ~FracLeq(last.result[1].score, last.result[2].score)
    /\ \E p \in 1..3 : /\ \A i \in 1..2 : last.result[i].job # jobsCache.v[p]
                      /\ ~FracLeq(last.result[2].score, SimilarityOf(jobsCache.v[p]))

\* C9: get_top_jobs returns an empty list and does not raise when the query is empty or
\* whitespace-only, and then touches neither the snapshot loader nor the embedding
\* service (files and caches stay as they were); it also returns an empty list without
\* raising, and embeds nothing, when the posting set it loaded is empty.
C9_EmptyQueryOrEmptySet ==
    [][ last'.op = "get_top_jobs"
        => /\ Strip(last'.query) = ""
              => /\ ~last'.raised /\ last'.result = <<>>
                 /\ last'.events = <<>> /\ last'.calls = <<>>
                 /\ UNCHANGED <<rawFile, cleanFile, jobsCache, jobEmbeddings>>
           /\ (Strip(last'.query) # "" /\ jobsCache'.set /\ jobsCache'.v = <<>>)
              => /\ ~last'.raised /\ last'.result = <<>>
                 /\ \A i \in 1..Len(last'.events) :
                       last'.events[i] \notin {"embed_documents", "embed_query"} ]_vars

\* a whitespace-only query answered with [] while a snapshot of postings is on disk and
\* the job cache is not loaded
C9_Witness ==
    /\ last.op = "get_top_jobs" /\ last.query = " " /\ last.result = <<>> /\ ~last.raised
    /\ cleanFile.exists /\ JsonLoadsOk(cleanFile.text) /\ Len(cleanFile.text.items) >= 1
    /\ ~jobsCache.set /\ ~jobEmbeddings.set

\* the last step was a run of job_matcher_node that got candidates and asked the oracle
Ranked ==
    last.op = "job_matcher_node" /\ last.stage \in {"llm", "fallback", "rank_raised"}

\* the oracle answered, and its text is a JSON list as it stands or between its first
\* "[" and its last "]"
OracleParseable ==
    /\ ~fnIn.oracle.fail
    /\ fnIn.oracle.content # <<>>
    /\ \/ ParsesAsList(fnIn.oracle.content)
       \/ /\ BracketSlice(fnIn.oracle.content) # <<>>
          /\ ParsesAsList(BracketSlice(fnIn.oracle.content))

\* the elements of that list
OracleList ==
    IF ParsesAsList(fnIn.oracle.content) THEN ListOf(fnIn.oracle.content)
    ELSE ListOf(BracketSlice(fnIn.oracle.content))

\* an oracle entry (an object) whose job_id is missing or is not a candidate's
MissingOrUnknownId(m) == m.k = "dict" /\ m.job_id \notin CandidateIds(last.candidates)

\* C4: after job_matcher_node processed a parseable oracle list, every entry of
\* state.job_matches has the job_id of a candidate retrieved in that run, and the loop
\* does not fail on an oracle entry whose job_id is missing or not among the candidates.
C4_OnlyCandidateIds ==
    (Ranked /\ OracleParseable)
    => /\ ~last.raised
          => \A i \in 1..Len(job_matches) :
                job_matches[i].job_id \in CandidateIds(last.candidates)
       /\ last.raised => ~MissingOrUnknownId(OracleList[last.at])

\* the match C5 expects for oracle entry m
OracleMatch(m) ==
    JobMatch(m.job_id, ById(last.candidates, m.job_id).job.title,
             IF m.score.t = Absent THEN ById(last.candidates, m.job_id).score
             ELSE [num |-> m.score.num, den |-> m.score.den],
             IF m.rationale = Absent THEN "" ELSE m.rationale)

HasKnownId(m) == m.k = "dict" /\ m.job_id \in CandidateIds(last.candidates)

\* C5: when the oracle returns a parseable non-empty list, state.job_matches consists of
\* exactly the oracle's entries with known ids, in the oracle's order, with the oracle's
\* score and rationale (the candidate's similarity and "" where the entry gives none);
\* candidates the oracle omits are not merged back.
C5_OracleEntriesInOracleOrder ==
    (Ranked /\ OracleParseable /\ OracleList # <<>>)
    => /\ ~last.raised
       /\ job_matches = SeqMap(OracleMatch, SelectSeq(OracleList, HasKnownId))

\* the first min(5, n) candidates in their incoming order, with their similarity and the
\* generic rationale
SimilarityOrder ==
    [i \in 1..Min(5, Len(last.candidates)) |->
        JobMatch(last.candidates[i].job.job_id, last.candidates[i].job.title,
                 last.candidates[i].score, GenericRationale)]

\* C6, as stated: the ranker falls back to similarity order exactly when the oracle
\* output cannot be parsed as a list by either attempt (or the oracle call failed); the
\* output is then the first min(5, n) candidates with the generic rationale, no raise.
C6_FallbackIffUnparseable ==
    Ranked
    => /\ (last.stage = "fallback") <=> ~OracleParseable
       /\ last.stage = "fallback"
             => ~last.raised /\ job_matches = SimilarityOrder /\ GenericRationale # ""

\* C6, amended: the ranker falls back exactly when the oracle output cannot be parsed
\* as a list by either attempt (or the call failed) or parses to an empty list.
C6_FallbackIffNothingParsed ==
    Ranked
    => /\ (last.stage = "fallback") <=> (~OracleParseable \/ OracleList = <<>>)
       /\ last.stage = "fallback"
             => ~last.raised /\ job_matches = SimilarityOrder /\ GenericRationale # ""

\* prose with an unbalanced bracket over six candidates: the five most similar are kept
C6_Witness ==
    /\ Ranked /\ last.stage = "fallback"
    /\ fnIn.oracle = Resp(<<Tok("prose"), Tok("["), Tok("prose")>>)
    /\ Len(last.candidates) = 6 /\ Len(job_matches) = 5
    /\ job_matches[1].job_id = "p2" /\ job_matches[5].job_id = "p3"

\* C7: for every oracle response job_matcher_node returns a state without raising.
C7_RankingNeverRaises == last.op = "job_matcher_node" => ~last.raised

\* the start URL contains "jobs.lever.co/" or "boards.greenhouse.io/"
MatchesAtsPattern(url) ==
    \E i \in 1..(Len(StripUrl(url)) - 1) :
        Lower(StripUrl(url)[i]) \in {"jobs.lever.co", "boards.greenhouse.io"}

Crawled_ == last.op \in {"_crawl_targets_for_jobs", "crawl_careers_targets"}

\* C10: for every crawl target whose start URL matches an ATS pattern, with or without
\* a board slug, the crawl fetches no page HTML and runs no JSON-LD scrape for that
\* target.
C10_AtsShortCircuits ==
    Crawled_
    => \A ti \in 1..Len(fnIn.targets) :
          MatchesAtsPattern(fnIn.targets[ti].careers_url)
             => \A e \in 1..Len(last.log) :
                   last.log[e].target = ti => last.log[e].kind \notin {"fetch_html", "jsonld"}

\* the network requests of the log made for target ti on the links of its start page:
\* its ATS calls and HTML fetches but the first, which is the request for the start URL
LinkRequests(log, ti) ==
    Max(0, Cardinality({e \in 1..Len(log) : log[e].target = ti /\ log[e].kind # "jsonld"}) - 1)

\* follow_links of _crawl_targets_for_jobs, max_pages of crawl_careers_targets
BudgetOf(op) == IF op = "_crawl_targets_for_jobs" THEN FollowLinksBudget ELSE MaxPages

\* C11: for each crawl target the number of internal links on which a network request
\* is attempted, successful or failed, never exceeds the crawl's link-follow budget.
C11_LinkBudget ==
    Crawled_
    => \A ti \in 1..Len(fnIn.targets) : LinkRequests(last.log, ti) <= BudgetOf(last.op)

\* the part of the crawl's log made for target ti
TargetLog(log, ti) == SelectSeq(log, LAMBDA e : e.target = ti)

\* ATS detection resolves a board from the target's start URL
StartsAtAtsBoard(ti) == TakesAtsPath(DetectAts(StripUrl(fnIn.targets[ti].careers_url)))

StartUrlOf(ti) == StripUrl(fnIn.targets[ti].careers_url)

\* C25: for each crawl target the levels are tried in strict order with early exit: the
\* ATS endpoint alone for an ATS board, else the start page and its JSON-LD postings;
\* internal links are followed only when the start URL is not an ATS board and the start
\* page yields no JSON-LD job posting, and once the start page yields at least one
\* posting no link of that target is requested.
C25_LevelsInOrder ==
    Crawled_
    => \A ti \in 1..Len(fnIn.targets) :
          /\ StartsAtAtsBoard(ti)
                => TargetLog(last.log, ti) = <<ApiEvent(DetectAts(StartUrlOf(ti)), ti)>>
          /\ (~StartsAtAtsBoard(ti) /\ TargetLog(last.log, ti) # <<>>)
                => TargetLog(last.log, ti)[1] = FetchEvent(StartUrlOf(ti), ti)
          /\ LinkRequests(last.log, ti) > 0
                => /\ ~StartsAtAtsBoard(ti)
                   /\ fnIn.web.start.ok /\ fnIn.web.start.postings = <<>>
          /\ (~StartsAtAtsBoard(ti) /\ StartUrlOf(ti) # <<>>
              /\ fnIn.web.start.ok /\ fnIn.web.start.postings # <<>>)
                => TargetLog(last.log, ti)
                     = <<FetchEvent(StartUrlOf(ti), ti), ScrapeEvent(StartUrlOf(ti), ti)>>

\* a careers page that carries a posting and a link to a jobs page: the posting is taken
\* and the link is not requested
C25_Witness ==
    /\ last.op = "_crawl_targets_for_jobs"
    /\ fnIn.targets = <<Target(CareersPage)>>
    /\ fnIn.web.start = Page(<<Posting1>>, <<JobsLink>>)
    /\ fnIn.web.sub[JobsLink] = Page(<<Posting1>>, <<>>)
    /\ last.log = <<FetchEvent(CareersPage, 1), ScrapeEvent(CareersPage, 1)>>
    /\ Len(fnOut) = 1

-----------------------------------------------------------------------------
(* The source adapters, request by request: load_jobs._fetch_jobs_from_jsearch,
   _fetch_jobs_from_adzuna, _crawl_lever and _crawl_greenhouse *)

\* what one requests.get gives: status "timeout" stands for the timeout or connection
\* error requests.get raises, any other status is the response's status code and body
\* is what resp.json() has to decode
Answer(status, body) == [status |-> status, body |-> body]

Body(kind, key, items) == [kind |-> kind, key |-> key, items |-> items]

\* a body that is not JSON: resp.json() raises
NotJson == Body("text", "", <<>>)
\* the JSON document null
JsonNull == Body("null", "", <<>>)
\* the JSON object {key: items}
JsonObject(key, items) == Body("object", key, items)
\* the JSON array items, of objects
JsonList(items) == Body("list", "", items)
\* a JSON array of strings
JsonStrings == Body("strings", "", <<>>)

\* bool(resp.json()) for a decodable body
Truthy(body) ==
    \/ body.kind = "strings"
    \/ body.kind = "list" /\ body.items # <<>>
    \/ body.kind = "object" /\ body.key # ""

\* data.get(key) or [] on a JSON object
DataGet(body, key) == IF body.key = key THEN body.items ELSE <<>>

\* lines 89-111: what one pass of the loop body of _fetch_jobs_from_jsearch does with
\* the answer to its request
JsearchStep(a) ==
    IF a.status = "timeout" THEN "raise"
    ELSE IF a.status = "401" THEN "return"
    ELSE IF a.status # "200" THEN "continue"
    ELSE IF a.body.kind # "object" THEN "raise"
    ELSE "extend"

\* lines 188-202: the same for _fetch_jobs_from_adzuna
AdzunaStep(a) ==
    IF a.status = "timeout" THEN "raise"
    ELSE IF a.status # "200" THEN "continue"
    ELSE IF a.body.kind # "object" THEN "raise"
    ELSE "extend"

StepOf(source, a) == IF source = "jsearch" THEN JsearchStep(a) ELSE AdzunaStep(a)

KeyOf(source) == IF source = "jsearch" THEN "data" ELSE "results"

\* what an adapter call did: whether it raised, the records it returned and the
\* answers to the requests it issued, in order
Gathered(raised, items, answered) == [raised |-> raised, items |-> items, answered |-> answered]

RECURSIVE FetchPages(_, _, _, _, _)
\* the loops over queries and pages (lines 73-111, 171-202): request n of total is
\* page ((n - 1) % pages_per_query) + 1 of query ((n - 1) \div pages_per_query) + 1
FetchPages(source, answers, n, total, all_jobs) ==
    IF n > total THEN Gathered(FALSE, all_jobs, SubSeq(answers, 1, total))
    ELSE IF StepOf(source, answers[n]) = "raise"
    THEN Gathered(TRUE, <<>>, SubSeq(answers, 1, n))
    ELSE IF StepOf(source, answers[n]) = "return"
    THEN Gathered(FALSE, all_jobs, SubSeq(answers, 1, n))
    ELSE IF StepOf(source, answers[n]) = "continue"
    THEN FetchPages(source, answers, n + 1, total, all_jobs)
    ELSE FetchPages(source, answers, n + 1, total,
                    all_jobs \o DataGet(answers[n].body, KeyOf(source)))

\* _fetch_jobs_from_jsearch(queries, pages_per_query) with the answers the network
\* gives to its requests
FetchJsearchPages(e, queries, pages_per_query, answers) ==
    IF ~e.jsearch THEN Gathered(FALSE, <<>>, <<>>)
    ELSE FetchPages("jsearch", answers, 1, Len(queries) * pages_per_query, <<>>)

\* _fetch_jobs_from_adzuna(queries, pages_per_query)
FetchAdzunaPages(e, queries, pages_per_query, answers) ==
    IF ~e.adzuna THEN Gathered(FALSE, <<>>, <<>>)
    ELSE FetchPages("adzuna", answers, 1, Len(queries) * pages_per_query, <<>>)

\* _fetch_json(url) raises: timeout, raise_for_status() or r.json()
FetchJsonRaises(a) == a.status # "200" \/ a.body.kind = "text"

\* _crawl_lever(slug, company): the endpoint answers a JSON array of postings
CrawlLever(slug, a) ==
    IF slug = Null THEN Gathered(FALSE, <<>>, <<>>)
    ELSE IF FetchJsonRaises(a) \/ ~Truthy(a.body) THEN Gathered(FALSE, <<>>, <<a>>)
    ELSE IF a.body.kind # "list" THEN Gathered(TRUE, <<>>, <<a>>)
    ELSE Gathered(FALSE, AtsJobs("lever", "lever", slug, [ok |-> TRUE, items |-> a.body.items]),
                  <<a>>)

\* _crawl_greenhouse(slug, company): the endpoint answers {"jobs": [...]}
CrawlGreenhouse(slug, a) ==
    IF slug = Null THEN Gathered(FALSE, <<>>, <<>>)
    ELSE IF FetchJsonRaises(a) \/ ~Truthy(a.body) THEN Gathered(FALSE, <<>>, <<a>>)
    ELSE IF a.body.kind # "object" THEN Gathered(TRUE, <<>>, <<a>>)
    ELSE Gathered(FALSE, AtsJobs("gh", "greenhouse", slug,
                                 [ok |-> TRUE, items |-> DataGet(a.body, "jobs")]),
                  <<a>>)

-----------------------------------------------------------------------------
(* The adapter specification: one call of one adapter against a network *)

Timeout == Answer("timeout", NotJson)
Unauthorized == Answer("401", NotJson)
ServerError == Answer("500", NotJson)
Ok(body) == Answer("200", body)

\* the answers a job-search API can give to one request
ApiAnswers ==
    {Timeout, Unauthorized, ServerError, Ok(NotJson), Ok(JsonObject("data", <<JS1>>)),
     Ok(JsonObject("results", <<AZ1>>)), Ok(JsonList(<<JS1>>))}

\* the answers an ATS endpoint can give
AtsAnswers ==
    {Timeout, Unauthorized, ServerError, Ok(NotJson), Ok(JsonNull), Ok(JsonList(<<>>)),
     Ok(JsonList(<<Item1>>)), Ok(JsonStrings), Ok(JsonObject("jobs", <<Item1>>))}

AdapterQueries == {<<>>, <<"q1">>, <<"q1", "q2">>}

PagesPerQuery == {1, 2}

AdapterEnvs == {FullEnv, Env(FALSE, FALSE, TRUE)}

\* the answers to the requests of one call, one per page of each query
AnswersFor(queries, pages_per_query) ==
    [1..(Len(queries) * pages_per_query) -> ApiAnswers]

InitAdapter ==
    /\ InitState(AdapterEnvs)
    /\ \E queries \in AdapterQueries, pages_per_query \in PagesPerQuery :
         \E answers \in AnswersFor(queries, pages_per_query), slug \in {Null, "acme"},
            api \in AtsAnswers :
           fnIn = [queries |-> queries, pages_per_query |-> pages_per_query,
                   answers |-> answers, slug |-> slug, api |-> api]

\* the call `op` returned or raised `g`
Called(op, g) ==
    /\ last.op = "start"
    /\ fnOut' = g.items
    /\ last' = [op |-> op, raised |-> g.raised, answered |-> g.answered]
    /\ UNCHANGED <<env, rawFile, cleanFile, jobsCache, jobEmbeddings, job_matches, fnIn>>

FetchJsearch ==
    Called("_fetch_jobs_from_jsearch",
           FetchJsearchPages(env, fnIn.queries, fnIn.pages_per_query, fnIn.answers))

FetchAdzuna ==
    Called("_fetch_jobs_from_adzuna",
           FetchAdzunaPages(env, fnIn.queries, fnIn.pages_per_query, fnIn.answers))

CallLever == Called("_crawl_lever", CrawlLever(fnIn.slug, fnIn.api))

CallGreenhouse == Called("_crawl_greenhouse", CrawlGreenhouse(fnIn.slug, fnIn.api))

NextAdapter == FetchJsearch \/ FetchAdzuna \/ CallLever \/ CallGreenhouse

SpecAdapter == InitAdapter /\ [][NextAdapter]_vars

\* C12: each source adapter returns a sequence and never raises past its boundary on
\* any failure of its network call: timeout or connection error, non-2xx status, or a
\* body that is not valid JSON of the expected shape.
C12_AdaptersNeverRaise ==
    last.op \in {"_fetch_jobs_from_jsearch", "_fetch_jobs_from_adzuna", "_crawl_lever",
                 "_crawl_greenhouse"}
    => ~last.raised

RECURSIVE RecordsOf(_, _, _)
\* the records of the first n answers: those under `key` of the 200 answers that are
\* JSON objects
RecordsOf(key, answered, n) ==
    IF n = 0 THEN <<>>
    ELSE RecordsOf(key, answered, n - 1)
         \o (IF answered[n].status = "200" /\ answered[n].body.kind = "object"
             THEN DataGet(answered[n].body, key) ELSE <<>>)

\* the call answered an authentication failure with no further request and returned
\* the records gathered before it
ShortCircuits(key) ==
    \A n \in 1..Len(last.answered) :
        last.answered[n].status = "401"
        => /\ n = Len(last.answered)
           /\ ~last.raised
           /\ fnOut = RecordsOf(key, last.answered, n - 1)

\* C13: for each API adapter, once a request receives an authentication failure the
\* adapter issues no further request for any remaining page or query, and the records
\* gathered before the failure are returned.
C13_AuthFailureShortCircuits ==
    /\ last.op = "_fetch_jobs_from_jsearch" => ShortCircuits("data")
    /\ last.op = "_fetch_jobs_from_adzuna" => ShortCircuits("results")

\* the snapshot file exists and json.loads of its text raises
SnapshotUnreadable == cleanFile.exists /\ ~JsonLoadsOk(cleanFile.text)

\* the step is a call of load_and_clean_jobs(force_refresh=False) that met an unreadable
\* snapshot
StoreMetUnreadable ==
    SnapshotUnreadable /\ last'.op = "load_and_clean_jobs" /\ ~last'.force_refresh

\* the step is a call of _load_jobs (through get_job_description_by_id) that met an
\* unreadable snapshot with nothing cached
RetrieverMetUnreadable ==
    SnapshotUnreadable /\ ~jobsCache.set /\ last'.op = "get_job_description_by_id"

\* C14: when the persisted snapshot exists but cannot be read or parsed,
\* load_and_clean_jobs(force_refresh=False) and _load_jobs do not propagate an error:
\* they run a full refresh and return its result, the newly persisted canonical set.
C14_ReadFailureRefreshes ==
    [][ /\ StoreMetUnreadable
            => /\ ~last'.raised /\ last'.refreshed
               /\ cleanFile' = FileOf(last'.result)
        /\ RetrieverMetUnreadable
            => /\ ~last'.raised /\ last'.events = <<"read_snapshot", "refresh">>
               /\ jobsCache'.set /\ cleanFile' = FileOf(jobsCache'.v) ]_vars

\* C15: in every state reachable by get_top_jobs, get_job_description_by_id,
\* reset_jobs_cache and refresh calls, if the embedding matrix is set then the job list
\* is set too and the matrix has exactly one row per posting of that list, in the same
\* order.
C15_MatrixMatchesJobList ==
    jobEmbeddings.set
    => /\ jobsCache.set
       /\ Len(jobEmbeddings.v) = Len(jobsCache.v)
       /\ \A i \in 1..Len(jobsCache.v) :
             jobEmbeddings.v[i] = Vec(ProjectionText(jobsCache.v[i]))

\* a search has built the matrix of three postings with three different vectors
C15_Witness ==
    /\ last.op = "get_top_jobs" /\ jobEmbeddings.set /\ Len(jobEmbeddings.v) = 3
    /\ jobEmbeddings.v[1] # jobEmbeddings.v[2] /\ jobEmbeddings.v[2] # jobEmbeddings.v[3]

-----------------------------------------------------------------------------
(* The cache specification: the retriever between two reset_jobs_cache calls. fnOut is
   the log of the retriever calls since the last reset, the reset first; it is empty
   until the first reset *)

MaxSinceReset == 3

\* one retriever call: what it was, its query, the services and files it touched,
\* whether it assigned the embedding matrix and the length of the job list in memory
\* after it
Entry(op, query, events, built, w) ==
    [op |-> op, query |-> query, events |-> events, built |-> built,
     n |-> Len(w.jobsCache.v)]

Logged(entry) == fnOut' = IF fnOut = <<>> THEN <<>> ELSE Append(fnOut, entry)

CacheQueries == {"", "Skills: python", "Skills: excel"}

CacheNets ==
    {NoNet, Net(FetchRaised, Fetched(<<>>), Crawled(<<>>)),
     Net(Fetched(<<JS1>>), Fetched(<<AZ1>>), Crawled(<<>>))}

\* reset_jobs_cache()
ResetLogged ==
    /\ SetWorld(ResetJobsCache(TheWorld))
    /\ last' = [op |-> "reset_jobs_cache"]
    /\ fnOut' = <<Entry("reset_jobs_cache", "", <<>>, FALSE, ResetJobsCache(TheWorld))>>
    /\ UNCHANGED <<env, job_matches, fnIn>>

\* get_top_jobs(query, 2)
SearchLogged ==
    /\ Len(fnOut) <= MaxSinceReset
    /\ \E query \in CacheQueries, fails \in EmbedFailures :
         \E net \in NetsFor(Strip(query) # "" /\ LoadWouldRefresh(TheWorld), CacheNets) :
           \E g \in GetTopJobs(env, TheWorld, query, 2, net, fails = "embed_documents",
                               fails = "embed_query") :
             /\ SetWorld(g.w)
             /\ last' = [op |-> "get_top_jobs", query |-> query, k |-> 2,
                         raised |-> g.raised, result |-> g.result, events |-> g.events,
                         calls |-> g.calls]
             /\ Logged(Entry("get_top_jobs", query, g.events,
                             g.w.jobEmbeddings.set /\ ~jobEmbeddings.set, g.w))
             /\ UNCHANGED <<env, job_matches, fnIn>>

\* get_job_description_by_id(job_id)
DescribeLogged ==
    /\ Len(fnOut) <= MaxSinceReset
    /\ \E job_id \in {"j1", "nope"} :
         \E net \in NetsFor(LoadWouldRefresh(TheWorld), CacheNets) :
           /\ SetWorld(LoadJobs(env, TheWorld, net).w)
           /\ last' = [op |-> "get_job_description_by_id", job_id |-> job_id,
                       raised |-> LoadJobs(env, TheWorld, net).raised,
                       events |-> LoadJobs(env, TheWorld, net).events]
           /\ Logged(Entry("get_job_description_by_id", "",
                           LoadJobs(env, TheWorld, net).events, FALSE,
                           LoadJobs(env, TheWorld, net).w))
           /\ UNCHANGED <<env, job_matches, fnIn>>

\* build_index() of rag/build_index.py: load_and_clean_jobs() with no argument, then
\* ValueError on an empty list and AttributeError on the first posting (a dict has no
\* attribute `description`); the retriever's caches are not touched
BuildIndex ==
    \E net \in NetsFor(~(UseSnapshot(cleanFile, FALSE) /\ JsonLoadsOk(cleanFile.text)),
                       CacheNets) :
      /\ rawFile' = LoadAndCleanJobs(env, rawFile, cleanFile, FALSE, <<>>, net).rawFile
      /\ cleanFile' = LoadAndCleanJobs(env, rawFile, cleanFile, FALSE, <<>>, net).cleanFile
      /\ last' = [op |-> "build_index", raised |-> TRUE,
                  refreshed |-> LoadAndCleanJobs(env, rawFile, cleanFile, FALSE, <<>>,
                                                 net).refreshed]
      /\ UNCHANGED <<env, jobsCache, jobEmbeddings, job_matches, fnIn, fnOut>>

NextCache ==
    \/ LoadAndClean(CacheNets)
    \/ CorruptSnapshot
    \/ ResetLogged
    \/ SearchLogged
    \/ DescribeLogged
    \/ BuildIndex

SpecCache == Init /\ [][NextCache]_vars

InSeq(x, s) == \E i \in 1..Len(s) : s[i] = x

\* the calls of the log that invoked the document-embedding service
DocsInvoked == {i \in 1..Len(fnOut) : InSeq("embed_documents", fnOut[i].events)}

\* the first search with a non-empty query of the log, if there is one
FirstSearches ==
    {i \in 1..Len(fnOut) :
        /\ fnOut[i].op = "get_top_jobs" /\ Strip(fnOut[i].query) # ""
        /\ \A j \in 1..(i - 1) : ~(fnOut[j].op = "get_top_jobs" /\ Strip(fnOut[j].query) # "")}

SnapshotPostings ==
    {JsonLoads(cleanFile.text)[i] : i \in 1..Len(JsonLoads(cleanFile.text))}

\* C17: the postings returned by get_top_jobs are postings of the most recently
\* persisted canonical snapshot, never of an earlier one (every write of the canonical
\* set is followed by an invalidation before the next search).
C17_SearchServesLatestSnapshot ==
    (last.op = "get_top_jobs" /\ ~last.raised /\ cleanFile.exists /\ JsonLoadsOk(cleanFile.text))
    => \A i \in 1..Len(last.result) : last.result[i].job \in SnapshotPostings

-----------------------------------------------------------------------------
(* The normaliser specification: two raw records, normalised one after the other *)

\* a raw record as a normaliser receives it: the record, the board slug or company
\* name it is normalised under and the URL of the page it was scraped from
Raw(normalizer, rec, context, page) ==
    [normalizer |-> normalizer, rec |-> rec, context |-> context, page |-> page]

JobIds(jobs) == SeqMap(LAMBDA j : j.job_id, jobs)

\* the canonical records the normaliser makes of the record: one, or none if it drops
\* the record
NormalizedJobs(x) ==
    CASE x.normalizer = "_clean_jobs_jsearch" -> CleanJobsJsearch(<<x.rec>>)
      [] x.normalizer = "_clean_jobs_adzuna" -> CleanJobsAdzuna(<<x.rec>>)
      [] x.normalizer = "_crawl_lever" ->
            AtsJobs("lever", "lever", x.context, [ok |-> TRUE, items |-> <<x.rec>>])
      [] x.normalizer = "_crawl_greenhouse" ->
            AtsJobs("gh", "greenhouse", x.context, [ok |-> TRUE, items |-> <<x.rec>>])
      [] x.normalizer = "_postings_to_clean_jobs" ->
            PostingsToCleanJobs(FALSE, <<x.rec>>, x.context, x.page)
      [] x.normalizer = "crawlers._crawl_lever" ->
            AtsJobsStandalone("lever", "lever", x.context, [ok |-> TRUE, items |-> <<x.rec>>])
      [] x.normalizer = "crawlers._crawl_greenhouse" ->
            AtsJobsStandalone("gh", "greenhouse", x.context,
                              [ok |-> TRUE, items |-> <<x.rec>>])
      [] OTHER -> PostingsToCleanJobs(TRUE, <<x.rec>>, x.context, x.page)

\* the job_ids the normaliser gives to the record
Normalize(x) == JobIds(NormalizedJobs(x))

AtsNormalizers ==
    {"_crawl_lever", "_crawl_greenhouse", "crawlers._crawl_lever", "crawlers._crawl_greenhouse"}

RawRecords ==
    {Raw("_clean_jobs_jsearch", JSearchRecord(id, title, "build", Null), "", <<>>) :
        id \in {Null, "j1", "adzuna:1"}, title \in {"Engineer", "Analyst"}}
    \cup {Raw("_clean_jobs_adzuna", AdzunaRecord(id, title, description), "", <<>>) :
            id \in {Null, "1"}, title \in {"Designer", "Analyst"},
            description \in {"draw", "report"}}
    \cup {Raw(normalizer, [title |-> title, url |-> url, description |-> description],
              "acme", <<>>) :
            normalizer \in AtsNormalizers, title \in {"", "Engineer"},
            url \in {"", "https://jobs.lever.co/acme/1"}, description \in {"build", "plan"}}
    \cup {Raw(normalizer, [title |-> title, url |-> url, description |-> description],
              "Acme", page) :
            normalizer \in {"_postings_to_clean_jobs", "crawlers._jsonld_to_jobs"},
            title \in {"Engineer", "Analyst"}, url \in {Null, "https://acme.com/jobs/1"},
            description \in {"build", "plan"}, page \in {CareersPage, JobsLink}}

InitNormalize ==
    /\ InitState({FullEnv})
    /\ fnIn \in [a : RawRecords, b : RawRecords]

\* the first record is normalised
NormalizeFirst ==
    /\ last.op = "start"
    /\ fnOut' = <<Normalize(fnIn.a)>>
    /\ last' = [op |-> "normalize", done |-> 1, kept |-> Normalize(fnIn.a)]
    /\ UNCHANGED <<env, rawFile, cleanFile, jobsCache, jobEmbeddings, job_matches, fnIn>>

\* later, the second one is, and the two are merged and deduplicated (lines 696-713)
NormalizeAgain ==
    /\ last.op = "normalize" /\ last.done = 1
    /\ fnOut' = Append(fnOut, Normalize(fnIn.b))
    /\ last' = [op |-> "normalize", done |-> 2,
                kept |-> JobIds(DedupeJobs(NormalizedJobs(fnIn.a) \o NormalizedJobs(fnIn.b)))]
    /\ UNCHANGED <<env, rawFile, cleanFile, jobsCache, jobEmbeddings, job_matches, fnIn>>

NextNormalize == NormalizeFirst \/ NormalizeAgain

SpecNormalize == InitNormalize /\ [][NextNormalize]_vars

\* the natural key of a raw record: the native id of an API record that has one, the
\* hashed fields otherwise
NaturalKey(x) ==
    CASE x.normalizer = "_clean_jobs_jsearch" -> <<x.rec.job_id>>
      [] x.normalizer = "_clean_jobs_adzuna" ->
            IF x.rec.id # Null THEN <<x.rec.id>>
            ELSE <<x.rec.title, x.rec.company, x.rec.location, x.rec.redirect_url>>
      [] x.normalizer \in AtsNormalizers -> <<x.context, x.rec.title, x.rec.url>>
      [] OTHER -> <<x.context, x.rec.title,
                    IF Falsy(x.rec.url) THEN UrlText(x.page) ELSE x.rec.url>>

BothNormalized == last.op = "normalize" /\ last.done = 2

\* C18: normalising the same raw record twice, at once or later, yields the same
\* job_id for every normaliser, and two records with equal source and natural key
\* always get the same id.
C18_SameKeySameId ==
    BothNormalized
    => /\ fnIn.a = fnIn.b => fnOut[1] = fnOut[2]
       /\ (fnIn.a.normalizer = fnIn.b.normalizer /\ NaturalKey(fnIn.a) = NaturalKey(fnIn.b))
             => fnOut[1] = fnOut[2]

\* two Adzuna records with the same native id and different titles and descriptions
C18_Witness ==
    /\ BothNormalized
    /\ fnIn.a.normalizer = "_clean_jobs_adzuna" /\ fnIn.b.normalizer = "_clean_jobs_adzuna"
    /\ fnIn.a.rec.title # fnIn.b.rec.title /\ fnIn.a.rec.description # fnIn.b.rec.description
    /\ fnOut = <<(<<"adzuna:1">>), (<<"adzuna:1">>)>>

\* a JSearch record and an Adzuna record, each with a native id, have been normalised
\* and merged
ApiPairMerged ==
    /\ BothNormalized
    /\ fnIn.a.normalizer = "_clean_jobs_jsearch" /\ fnIn.a.rec.job_id # Null
    /\ fnIn.b.normalizer = "_clean_jobs_adzuna" /\ fnIn.b.rec.id # Null

\* C19: for both job-search APIs the canonical job_id is the source's tag prefix
\* followed by the native id, so a record from one source is never discarded by
\* deduplication because of an id produced by the other.
C19_SourcePrefixedIds ==
    ApiPairMerged
    => /\ fnOut[1] # <<fnIn.a.rec.job_id>>
       /\ fnOut[2] = <<"adzuna:" \o fnIn.b.rec.id>>
       /\ last.kept = fnOut[1] \o fnOut[2]

-----------------------------------------------------------------------------
(* graph/interview_agent.py: _parse_feedback; graph/resume_agent.py:
   _parse_resume_response; and one call of each oracle-text parser *)

\* what a parser returned: "list" or "value" with the tokens json.loads decoded, "empty"
\* for [] or {}, "hard_fail" for the score-1 feedback of interview_agent.py lines 136-141
Parsed(kind, value) == [kind |-> kind, value |-> value]

\* json.loads(text) succeeded and gave a dict
ParsesAsDict(t) == JsonValue(t) /\ t[1].k \in {"{", "obj"}

\* content.find("{") and content.rfind("}") + 1, as token positions (0: not found); an
\* "obj" token begins with "{" and ends with "}"
FindOpenBrace(content) ==
    IF \E i \in 1..Len(content) : content[i].k \in {"{", "obj"}
    THEN CHOOSE i \in 1..Len(content) :
            content[i].k \in {"{", "obj"} /\ \A j \in 1..(i - 1) : content[j].k \notin {"{", "obj"}
    ELSE 0

RFindCloseBrace(content) ==
    IF \E i \in 1..Len(content) : content[i].k \in {"}", "obj"}
    THEN CHOOSE i \in 1..Len(content) :
            content[i].k \in {"}", "obj"}
            /\ \A j \in (i + 1)..Len(content) : content[j].k \notin {"}", "obj"}
    ELSE 0

\* content[start:end] when 0 <= start < end, else nothing to try
BraceSlice(content) ==
    IF FindOpenBrace(content) >= 1 /\ FindOpenBrace(content) <= RFindCloseBrace(content)
    THEN SubSeq(content, FindOpenBrace(content), RFindCloseBrace(content))
    ELSE <<>>

\* _parse_feedback(content)
ParseFeedback(content) ==
    IF content = <<>> THEN Parsed("empty", <<>>)
    ELSE IF ParsesAsDict(content) THEN Parsed("value", content)
    ELSE IF BraceSlice(content) # <<>> /\ ParsesAsDict(BraceSlice(content))
    THEN Parsed("value", BraceSlice(content))
    ELSE Parsed("hard_fail", <<>>)

\* _parse_resume_response(content): the first attempt returns whatever json.loads
\* decodes, dict or not
ParseResumeResponse(content) ==
    IF content = <<>> THEN Parsed("empty", <<>>)
    ELSE IF JsonValue(content) THEN Parsed("value", content)
    ELSE IF BraceSlice(content) # <<>> /\ JsonValue(BraceSlice(content))
    THEN Parsed("value", BraceSlice(content))
    ELSE Parsed("empty", <<>>)

\* _parse_matches(content), with the span it decoded
ParseMatchesSpan(content) ==
    IF content = <<>> THEN Parsed("empty", <<>>)
    ELSE IF ParsesAsList(content) THEN Parsed("list", content)
    ELSE IF BracketSlice(content) # <<>> /\ ParsesAsList(BracketSlice(content))
    THEN Parsed("list", BracketSlice(content))
    ELSE Parsed("empty", <<>>)

InitParse ==
    /\ InitState({FullEnv})
    /\ fnIn \in SeqsUpTo(ContentAlphabet, MaxContentLen)

ParserCalled(op, result) ==
    /\ last.op = "start"
    /\ fnOut' = result
    /\ last' = [op |-> op]
    /\ UNCHANGED <<env, rawFile, cleanFile, jobsCache, jobEmbeddings, job_matches, fnIn>>

CallParseMatches ==
    ParserCalled("_parse_matches", [ParseMatchesSpan(fnIn) EXCEPT !.value = ParseMatches(fnIn)])

CallParseFeedback == ParserCalled("_parse_feedback", ParseFeedback(fnIn))

CallParseResumeResponse == ParserCalled("_parse_resume_response", ParseResumeResponse(fnIn))

NextParse == CallParseMatches \/ CallParseFeedback \/ CallParseResumeResponse

SpecParse == InitParse /\ [][NextParse]_vars

RECURSIVE CloseOf(_, _, _, _, _)
\* the position where the span opened before position j closes: depth is the number of
\* spans open at j (0: it never closes)
CloseOf(content, j, depth, opens, closes) ==
    IF j > Len(content) THEN 0
    ELSE IF content[j].k = closes /\ depth = 1 THEN j
    ELSE CloseOf(content, j + 1,
                 depth + (IF content[j].k = opens THEN 1
                          ELSE IF content[j].k = closes THEN -1 ELSE 0),
                 opens, closes)

\* the first balanced bracketed span of the text (<<>> if there is none)
FirstBracketSpan(content) ==
    IF FindOpen(content) = 0 \/ CloseOf(content, FindOpen(content), 0, "[", "]") = 0 THEN <<>>
    ELSE SubSeq(content, FindOpen(content), CloseOf(content, FindOpen(content), 0, "[", "]"))

\* the first balanced braced span of the text
FirstBraceSpan(content) ==
    IF FindOpenBrace(content) = 0 THEN <<>>
    ELSE IF content[FindOpenBrace(content)].k = "obj" THEN <<content[FindOpenBrace(content)]>>
    ELSE IF CloseOf(content, FindOpenBrace(content), 0, "{", "}") = 0 THEN <<>>
    ELSE SubSeq(content, FindOpenBrace(content),
                CloseOf(content, FindOpenBrace(content), 0, "{", "}"))

\* C20: given oracle text that contains a valid JSON list surrounded by arbitrary prose,
\* prose with "[" or "]" characters included, _parse_matches extracts the first balanced
\* bracketed span and returns that list; the same holds for the braced-object parsers
\* and the first balanced braced span.
C20_FirstBalancedSpan ==
    /\ (last.op = "_parse_matches" /\ FirstBracketSpan(fnIn) # <<>>
        /\ ParsesAsList(FirstBracketSpan(fnIn)))
          => fnOut.value = ListOf(FirstBracketSpan(fnIn))
    /\ (last.op \in {"_parse_feedback", "_parse_resume_response"}
        /\ FirstBraceSpan(fnIn) # <<>> /\ ParsesAsDict(FirstBraceSpan(fnIn)))
          => fnOut = Parsed("value", FirstBraceSpan(fnIn))

-----------------------------------------------------------------------------
(* The refresh specification: calls of load_and_clean_jobs, with what the network
   answered to the last call kept in fnIn and the snapshot file the call found in fnOut *)

InitRefresh == InitState(StoreEnvs) /\ fnIn = NoNet

\* load_and_clean_jobs(force_refresh, queries)
LoadAndCleanAnswered ==
    \E force_refresh \in BOOLEAN, queries \in QueryArgs :
      \E net \in NetsFor(~(UseSnapshot(cleanFile, force_refresh) /\ JsonLoadsOk(cleanFile.text)),
                         StoreNets) :
        LET r == LoadAndCleanJobs(env, rawFile, cleanFile, force_refresh, queries, net)
        IN  /\ rawFile' = r.rawFile
            /\ cleanFile' = r.cleanFile
            /\ last' = [op |-> "load_and_clean_jobs", force_refresh |-> force_refresh,
                        queries |-> queries, raised |-> r.raised, refreshed |-> r.refreshed,
                        result |-> r.result, calls |-> r.calls, used |-> r.used,
                        merged |-> r.merged]
            /\ fnIn' = net
            /\ fnOut' = cleanFile
            /\ UNCHANGED <<env, jobsCache, jobEmbeddings, job_matches>>

NextRefresh == LoadAndCleanAnswered \/ CorruptSnapshot

SpecRefresh == InitRefresh /\ [][NextRefresh]_vars

\* the last call ran a refresh and both API adapters returned
ApiFetched ==
    /\ last.op = "load_and_clean_jobs" /\ last.calls # <<>>
    /\ ~FetchJobsFromJsearch(env, fnIn.jsearch).raised
    /\ ~FetchJobsFromAdzuna(env, fnIn.adzuna).raised

\* the postings the two API adapters brought, normalised and deduplicated
ApiPostings ==
    DedupeJobs(CleanJobsJsearch(FetchJobsFromJsearch(env, fnIn.jsearch).items)
               \o CleanJobsAdzuna(FetchJobsFromAdzuna(env, fnIn.adzuna).items))

\* C21: in a refresh the crawl layer runs only if the search-oracle credential is set,
\* and neither its absence nor an exception raised inside company picking, discovery or
\* crawling prevents the API-sourced postings from being deduplicated, persisted and
\* returned.
C21_CrawlLayerOptional ==
    ApiFetched
    => /\ ~last.raised /\ last.refreshed
       /\ InSeq("company_picker", last.calls) <=> env.serper
       /\ Len(last.result) >= Len(ApiPostings)
       /\ SubSeq(last.result, 1, Len(ApiPostings)) = ApiPostings
       /\ DistinctIds(last.result)
       /\ cleanFile = FileOf(last.result)
       /\ (~env.serper \/ fnIn.crawl.stage # "ok") => last.result = ApiPostings

\* with the credential set the crawl raised, and the two API postings were persisted
\* and returned
C21_Witness ==
    /\ ApiFetched /\ env.serper /\ fnIn.crawl.stage = "crawl_raises"
    /\ Len(last.result) = 2 /\ last.result = ApiPostings
    /\ cleanFile = FileOf(last.result)

\* the postings the last refresh fetched: what the two API adapters and the crawl layer
\* handed over, normalised
FetchedPostings ==
    CleanJobsJsearch(FetchJobsFromJsearch(env, fnIn.jsearch).items)
    \o CleanJobsAdzuna(FetchJobsFromAdzuna(env, fnIn.adzuna).items)
    \o CrawlLayer(env, fnIn.crawl).jobs

ForcedRefreshCompleted ==
    last.op = "load_and_clean_jobs" /\ last.force_refresh /\ last.refreshed

\* C24: each completed forced refresh replaces the canonical snapshot wholesale: the
\* persisted file and the returned list contain exactly the deduplicated postings
\* fetched during that refresh, and no posting of the previous snapshot survives unless
\* it was fetched again.
C24_RefreshReplacesSnapshot ==
    ForcedRefreshCompleted
    => /\ cleanFile.exists /\ JsonLoadsOk(cleanFile.text)
       /\ JsonLoads(cleanFile.text) = last.result
       /\ DistinctIds(last.result)
       /\ \A i \in 1..Len(last.result) : InSeq(last.result[i], FetchedPostings)
       /\ \A i \in 1..Len(FetchedPostings) :
             ~Falsy(FetchedPostings[i].job_id)
                => FetchedPostings[i].job_id \in IdsOf(last.result)
       /\ \A i \in 1..Len(fnOut.text.items) :
             InSeq(DecodeJob(fnOut.text.items[i]), last.result)
                => InSeq(DecodeJob(fnOut.text.items[i]), FetchedPostings)

\* a forced refresh found a snapshot of two postings and left one of two others
C24_Witness ==
    /\ ForcedRefreshCompleted
    /\ Len(fnOut.text.items) = 2 /\ Len(last.result) = 2
    /\ \A i \in 1..2 : ~InSeq(DecodeJob(fnOut.text.items[i]), last.result)
    /\ cleanFile = FileOf(last.result)

-----------------------------------------------------------------------------
(* The race specification: one caller's get_top_jobs, statement by statement, against
   another caller's forced refresh and reset_jobs_cache (job_matcher_node lines 133-135).
   The program runs under Streamlit, one thread per session, and the two caches are
   module globals without a lock. fnOut holds the local variables of the search in
   progress, fnIn the position of the other caller *)

\* the locals of a get_top_jobs call: pc is "idle" (no call in progress), "loaded"
\* (line 114 returned), "embedding" (inside _ensure_embeddings, before line 92 returns)
\* or "ensured" (line 119 returned)
Locals(pc, query, jobs, texts, job_vecs) ==
    [pc |-> pc, query |-> query, jobs |-> jobs, texts |-> texts, job_vecs |-> job_vecs]

Idle == Locals("idle", "", <<>>, <<>>, <<>>)

\* what a step of the search reports: status is "running", "returned" or "raised"
SearchStep(status, query, error, result) ==
    [op |-> "get_top_jobs", status |-> status, query |-> query, error |-> error,
     result |-> result]

RaceQueries == {"", "Skills: python"}

\* what the sources answer to the other caller's refresh: one posting, another one,
\* two postings of which the second is the closer to the query, or a failure
RaceNets ==
    {Net(Fetched(<<JS1>>), Fetched(<<>>), Crawled(<<>>)),
     Net(Fetched(<<>>), Fetched(<<AZ1>>), Crawled(<<>>)),
     Net(Fetched(<<>>), Fetched(<<AZ1>>), Crawled(<<L1>>)),
     Net(FetchRaised, Fetched(<<>>), Crawled(<<>>))}

\* a snapshot of one posting is on disk and nothing is cached
InitRace ==
    /\ env = FullEnv
    /\ rawFile = [exists |-> TRUE]
    /\ cleanFile = FileOf(CleanJobsJsearch(<<JS1>>))
    /\ jobsCache = Unset
    /\ jobEmbeddings = Unset
    /\ job_matches = <<>>
    /\ last = [op |-> "start"]
    /\ fnIn = [pc |-> "idle"]
    /\ fnOut = Idle

\* get_top_jobs(query, 2), lines 109-117
SearchBegin ==
    /\ fnOut.pc = "idle"
    /\ \E query \in RaceQueries :
         IF Strip(query) = ""
         THEN /\ last' = SearchStep("returned", query, "", <<>>)
              /\ UNCHANGED <<env, rawFile, cleanFile, jobsCache, jobEmbeddings, job_matches,
                             fnIn, fnOut>>
         ELSE /\ SetWorld(LoadJobs(env, TheWorld, NoNet).w)
              /\ fnOut' = IF LoadJobs(env, TheWorld, NoNet).jobs = <<>> THEN Idle
                          ELSE Locals("loaded", Strip(query),
                                      LoadJobs(env, TheWorld, NoNet).jobs, <<>>, <<>>)
              /\ last' = SearchStep(IF LoadJobs(env, TheWorld, NoNet).jobs = <<>>
                                    THEN "returned" ELSE "running", query, "", <<>>)
              /\ UNCHANGED <<env, job_matches, fnIn>>

\* _ensure_embeddings, lines 79-90
EnsureBegin ==
    /\ fnOut.pc = "loaded"
    /\ IF jobEmbeddings.set
       THEN /\ fnOut' = [fnOut EXCEPT !.pc = "ensured", !.job_vecs = jobEmbeddings.v]
            /\ UNCHANGED <<rawFile, cleanFile, jobsCache, jobEmbeddings>>
       ELSE IF LoadJobs(env, TheWorld, NoNet).jobs = <<>>
       THEN /\ SetWorld([LoadJobs(env, TheWorld, NoNet).w EXCEPT !.jobEmbeddings = Set(<<>>)])
            /\ fnOut' = [fnOut EXCEPT !.pc = "ensured", !.job_vecs = <<>>]
       ELSE /\ SetWorld(LoadJobs(env, TheWorld, NoNet).w)
            /\ fnOut' = [fnOut EXCEPT !.pc = "embedding",
                                      !.texts = SeqMap(ProjectionText,
                                                       LoadJobs(env, TheWorld, NoNet).jobs)]
    /\ last' = SearchStep("running", fnOut.query, "", <<>>)
    /\ UNCHANGED <<env, job_matches, fnIn>>

\* _ensure_embeddings, lines 92-101: embed_documents returns or raises
EnsureEnd ==
    /\ fnOut.pc = "embedding"
    /\ \E docsFail \in BOOLEAN :
         IF docsFail
         THEN /\ fnOut' = Idle
              /\ last' = SearchStep("raised", fnOut.query, "embed_documents", <<>>)
              /\ UNCHANGED jobEmbeddings
         ELSE /\ jobEmbeddings' = Set(SeqMap(Vec, fnOut.texts))
              /\ fnOut' = [fnOut EXCEPT !.pc = "ensured", !.job_vecs = SeqMap(Vec, fnOut.texts)]
              /\ last' = SearchStep("running", fnOut.query, "", <<>>)
    /\ UNCHANGED <<env, rawFile, cleanFile, jobsCache, job_matches, fnIn>>

\* lines 131-147 on the locals: jobs[idx] raises IndexError for a row without posting
RankLocals(jobs, sims, query, k) ==
    { IF \E i \in 1..Len(TopIndexes(order, k, Len(jobs))) :
            TopIndexes(order, k, Len(jobs))[i] > Len(jobs)
      THEN SearchStep("raised", query, "IndexError", <<>>)
      ELSE SearchStep("returned", query, "",
                      SeqMap(LAMBDA idx : Scored(jobs[idx], sims[idx]),
                             TopIndexes(order, k, Len(jobs))))
      : order \in ArgsortDesc(sims) }

\* get_top_jobs, lines 120-147
Rank ==
    /\ fnOut.pc = "ensured"
    /\ fnOut' = Idle
    /\ IF fnOut.job_vecs = <<>>
       THEN last' = SearchStep("returned", fnOut.query, "", <<>>)
       ELSE \E queryFail \in BOOLEAN :
              IF queryFail
              THEN last' = SearchStep("raised", fnOut.query, "embed_query", <<>>)
              ELSE last' \in RankLocals(fnOut.jobs,
                                        [i \in 1..Len(fnOut.job_vecs) |->
                                            Cosine(fnOut.job_vecs[i], Vec(fnOut.query))],
                                        fnOut.query, 2)
    /\ UNCHANGED <<env, rawFile, cleanFile, jobsCache, jobEmbeddings, job_matches, fnIn>>

\* job_matcher_node of the other caller, lines 133-134
RefreshForResume ==
    /\ fnIn.pc = "idle"
    /\ \E net \in RaceNets :
         /\ rawFile' = LoadAndCleanJobs(env, rawFile, cleanFile, TRUE,
                                        <<"data analyst in Boston">>, net).rawFile
         /\ cleanFile' = LoadAndCleanJobs(env, rawFile, cleanFile, TRUE,
                                          <<"data analyst in Boston">>, net).cleanFile
         /\ fnIn' = [pc |-> IF net.jsearch.raised THEN "idle" ELSE "refreshed"]
         /\ last' = [op |-> "load_and_clean_jobs", raised |-> net.jsearch.raised]
    /\ UNCHANGED <<env, jobsCache, jobEmbeddings, job_matches, fnOut>>

\* job_matcher_node of the other caller, line 135
ResetAfterRefresh ==
    /\ fnIn.pc = "refreshed"
    /\ SetWorld(ResetJobsCache(TheWorld))
    /\ fnIn' = [pc |-> "idle"]
    /\ last' = [op |-> "reset_jobs_cache"]
    /\ UNCHANGED <<env, job_matches, fnOut>>

NextRace ==
    \/ SearchBegin
    \/ EnsureBegin
    \/ EnsureEnd
    \/ Rank
    \/ RefreshForResume
    \/ ResetAfterRefresh

SpecRace == InitRace /\ [][NextRace]_vars

\* C22: for any interleaving of one caller's get_top_jobs with another caller's forced
\* refresh followed by reset_jobs_cache, the posting list and the embedding matrix used
\* inside one search come from the same snapshot (equal length, row i belongs to posting
\* i), so no index error and no mispaired score is reachable.
C22_SearchUsesOneSnapshot ==
    /\ fnOut.pc = "ensured" => fnOut.job_vecs = EmbedDocuments(fnOut.jobs)
    /\ (last.op = "get_top_jobs" /\ last.status # "running")
       => /\ last.error # "IndexError"
          /\ \A i \in 1..Len(last.result) :
                last.result[i].score = Cosine(Vec(ProjectionText(last.result[i].job)),
                                              Vec(last.query))

\* C23: a rebuild of the embedding matrix is all-or-nothing: reset_jobs_cache clears the
\* job list and the matrix in the same step, a failed embedding call of a rebuild leaves
\* the matrix unset, and no reachable state holds a matrix that mixes vectors of two
\* snapshots or covers only part of the postings held in memory.
C23_MatrixAllOrNothing ==
    /\ last.op = "reset_jobs_cache" => ~jobsCache.set /\ ~jobEmbeddings.set
    /\ (last.op = "get_top_jobs" /\ last.error = "embed_documents") => ~jobEmbeddings.set
    /\ (jobEmbeddings.set /\ jobsCache.set)
       => /\ Len(jobEmbeddings.v) = Len(jobsCache.v)
          /\ \A i \in 1..Len(jobsCache.v) :
                jobEmbeddings.v[i] = Vec(ProjectionText(jobsCache.v[i]))

-----------------------------------------------------------------------------
(* The discovery planner: load_jobs._discover_careers_urls and
   crawlers/careers_discovery.discover_careers_urls *)

\* "jobs.lever.co/" in ul or "boards.greenhouse.io/" in ul (load_jobs.py line 351)
IsAtsUrl(u) == HostAt(u, "jobs.lever.co") # {} \/ HostAt(u, "boards.greenhouse.io") # {}

\* a piece that contains "careers", "jobs", "work-with-us" or "join" (line 359)
CareersWord(seg) ==
    Lower(seg) \in {"careers", "careers#open", "jobs", "jobs.lever.co", "work-with-us", "join"}

LooksLikeCareers(u) == \E i \in 1..Len(u) : CareersWord(u[i])

\* _is_plausible_careers_url(url) of careers_discovery.py: the hints of line 10
IsPlausibleCareersUrl(u) ==
    \E i \in 1..Len(u) : CareersWord(u[i]) \/ Lower(u[i]) \in {"boards.greenhouse.io", "workday"}

\* the position of the first hit that satisfies P (0: none)
FirstHit(hits, P(_)) ==
    IF \E i \in 1..Len(hits) : P(hits[i])
    THEN CHOOSE i \in 1..Len(hits) : P(hits[i]) /\ \A j \in 1..(i - 1) : ~P(hits[j])
    ELSE 0

\* lines 347-361: the first ATS hit, else the first careers-like hit, else None (<<>>)
ChosenUrl(hits) ==
    IF FirstHit(hits, IsAtsUrl) > 0 THEN hits[FirstHit(hits, IsAtsUrl)]
    ELSE IF FirstHit(hits, LooksLikeCareers) > 0 THEN hits[FirstHit(hits, LooksLikeCareers)]
    ELSE <<>>

\* a crawl target, with the position in `companies` of the entry it was planned for
Planned(company, careers_url, entry) ==
    [company |-> company, careers_url |-> careers_url, entry |-> entry]

\* the five search queries of lines 329-335
SearchQueriesPerCompany == 5

RECURSIVE PlanCompany(_, _, _, _, _, _, _, _)
\* lines 340-374: the loop over the search queries of one company
PlanCompany(answers, sq, picked, used_domains, max_per_company, c, entry, targets) ==
    IF sq > SearchQueriesPerCompany THEN targets
    ELSE IF answers[sq].raised \/ ChosenUrl(answers[sq].hits) = <<>>
    THEN PlanCompany(answers, sq + 1, picked, used_domains, max_per_company, c, entry, targets)
    ELSE IF Domain(ChosenUrl(answers[sq].hits)) \in used_domains
    THEN PlanCompany(answers, sq + 1, picked, used_domains, max_per_company, c, entry, targets)
    ELSE IF picked + 1 >= max_per_company
    THEN Append(targets, Planned(c, ChosenUrl(answers[sq].hits), entry))
    ELSE PlanCompany(answers, sq + 1, picked + 1,
                     used_domains \cup {Domain(ChosenUrl(answers[sq].hits))}, max_per_company,
                     c, entry, Append(targets, Planned(c, ChosenUrl(answers[sq].hits), entry)))

RECURSIVE PickHits(_, _, _, _, _, _, _, _)
\* lines 53-68 of careers_discovery.py: the loop over the hits of the one search
PickHits(hits, i, picked, seen_domains, max_per_company, c, entry, targets) ==
    IF i > Len(hits) THEN targets
    ELSE IF ~IsPlausibleCareersUrl(hits[i]) \/ Domain(hits[i]) \in seen_domains
    THEN PickHits(hits, i + 1, picked, seen_domains, max_per_company, c, entry, targets)
    ELSE IF picked + 1 >= max_per_company THEN Append(targets, Planned(c, hits[i], entry))
    ELSE PickHits(hits, i + 1, picked + 1, seen_domains \cup {Domain(hits[i])}, max_per_company,
                  c, entry, Append(targets, Planned(c, hits[i], entry)))

\* a planner that keeps the URL chosen for every search, with no cap and no look at the
\* domains
PlanEntryEverySearch(standalone, answers, max_per_company, c, entry, targets) ==
    IF Strip(c) = "" THEN targets
    ELSE targets \o SeqMap(LAMBDA a : Planned(Strip(c), ChosenUrl(a.hits), entry),
                           SelectSeq(answers, LAMBDA a : ~a.raised /\ ChosenUrl(a.hits) # <<>>))

\* one iteration of the loop over the companies, by either planner
PlanEntry(standalone, answers, max_per_company, c, entry, targets) ==
    IF Strip(c) = "" THEN targets
    ELSE IF ~standalone
    THEN PlanCompany(answers, 1, 0, {}, max_per_company, Strip(c), entry, targets)
    ELSE IF answers[1].raised THEN targets
    ELSE PickHits(answers[1].hits, 1, 0, {}, max_per_company, Strip(c), entry, targets)

RECURSIVE PlanFrom(_, _, _, _, _, _)
PlanFrom(standalone, companies, entry, answers, max_per_company, targets) ==
    IF entry > Len(companies) THEN targets
    ELSE PlanFrom(standalone, companies, entry + 1, answers, max_per_company,
                  PlanEntry(standalone, answers, max_per_company, companies[entry], entry,
                            targets))

\* _discover_careers_urls(companies, queries, max_per_company) of load_jobs.py; answers[n]
\* is what the search oracle gives to the n-th query made for a company
DiscoverCareersUrls(companies, answers, max_per_company) ==
    PlanFrom(FALSE, companies, 1, answers, max_per_company, <<>>)

\* discover_careers_urls(companies, role_keywords, max_per_company) of careers_discovery.py
DiscoverCareersUrlsStandalone(companies, answers, max_per_company) ==
    PlanFrom(TRUE, companies, 1, answers, max_per_company, <<>>)

\* what the search oracle can answer to one query: an error, no hit, or hits
SearchRaised == [raised |-> TRUE, hits |-> <<>>]

Hits(hits) == [raised |-> FALSE, hits |-> hits]

SearchAnswers ==
    {SearchRaised, Hits(<<>>), Hits(<<CareersPage, LeverBoard>>), Hits(<<AboutLink, JobsLink>>),
     Hits(<<CareersPage, JobsLink>>), Hits(<<ExternalLink>>)}

\* the company lists a picker can hand over: names, a blank entry, a name listed twice
CompanyLists ==
    {<<>>, <<"Acme">>, <<" ", "Acme">>, <<"Acme", "Globex">>, <<"Acme", "Acme">>}

InitDiscover ==
    /\ InitState({FullEnv})
    /\ fnIn \in [companies : CompanyLists,
                 answers : [1..SearchQueriesPerCompany -> SearchAnswers],
                 max_per_company : {1, 2}]

Discovered(op, targets) ==
    /\ last.op = "start"
    /\ fnOut' = targets
    /\ last' = [op |-> op]
    /\ UNCHANGED <<env, rawFile, cleanFile, jobsCache, jobEmbeddings, job_matches, fnIn>>

Discover ==
    Discovered("_discover_careers_urls",
               DiscoverCareersUrls(fnIn.companies, fnIn.answers, fnIn.max_per_company))

DiscoverStandalone ==
    Discovered("discover_careers_urls",
               DiscoverCareersUrlsStandalone(fnIn.companies, fnIn.answers, fnIn.max_per_company))

NextDiscover == Discover \/ DiscoverStandalone

SpecDiscover == InitDiscover /\ [][NextDiscover]_vars

\* the targets planned for the entry of the company list at position entry
PlannedFor(entry) == {i \in 1..Len(fnOut) : fnOut[i].entry = entry}

-----------------------------------------------------------------------------
(* The company picker: load_jobs._choose_companies_from_scratch *)

\* entries of a "companies" list in the specification of the picker's inputs
MaxListed == 3

\* line 308: companies[:30]
MaxCompanies == 30

\* line 313
SeedCompanies ==
    <<"Google", "Microsoft", "Amazon", "Apple", "Meta", "NVIDIA", "Stripe", "Databricks",
      "Snowflake", "Notion">>

\* an element of a JSON array: a string, or a value that is not a string
Str(s) == [isstr |-> TRUE, s |-> s]

NotStr == [isstr |-> FALSE, s |-> ""]

\* c.strip() of a company name
StripName(s) ==
    CASE s = " Globex " -> "Globex"
      [] s \in {" ", ""} -> ""
      [] OTHER -> s

\* what the picking oracle answers: kind is "raise" (the call fails), "text" (not JSON),
\* "list", "number", "string" or "null" (valid JSON that is not an object) or "object";
\* companies is the value under "companies" of an object: t is "absent", "null",
\* "number", "string" (items are its characters) or "list"
Picked(kind, t, items) == [kind |-> kind, companies |-> [t |-> t, items |-> items]]

\* what the picker did
Chosen(raised, companies) == [raised |-> raised, companies |-> companies]

\* line 307: the stripped strings of the iterable that are not blank
NamesOf(items) ==
    SeqMap(LAMBDA c : StripName(c.s), SelectSeq(items, LAMBDA c : c.isstr /\ StripName(c.s) # ""))

\* _choose_companies_from_scratch(queries): invoke is outside the try (line 301);
\* inside it json.loads raises on text, a value that is not a dict gives [] (line 306),
\* and iterating None or a number raises TypeError (line 307)
ChooseCompaniesFromScratch(o) ==
    IF o.kind = "raise" THEN Chosen(TRUE, <<>>)
    ELSE IF o.kind = "text" THEN Chosen(FALSE, SeedCompanies)
    ELSE IF o.kind # "object" THEN Chosen(FALSE, <<>>)
    ELSE IF o.companies.t \in {"absent", "null", "number"} THEN Chosen(FALSE, SeedCompanies)
    ELSE Chosen(FALSE, SliceTo(NamesOf(o.companies.items), MaxCompanies))

PickerItems == {Str("Acme"), Str(" Globex "), Str(" "), NotStr}

\* a list of n entries of which every third is blank
LongList(n) == [i \in 1..n |-> IF i % 3 = 0 THEN Str(" ") ELSE Str("Acme")]

PickerOutputs ==
    {Picked(kind, "absent", <<>>) : kind \in {"raise", "text", "list", "number", "string", "null"}}
    \cup {Picked("object", t, <<>>) : t \in {"absent", "null", "number"}}
    \cup {Picked("object", "string", <<Str("A"), Str("c"), Str("m"), Str("e")>>)}
    \cup {Picked("object", "list", items) : items \in SeqsUpTo(PickerItems, MaxListed)}
    \cup {Picked("object", "list", LongList(n)) :
            n \in {MaxCompanies, MaxCompanies + 1, MaxCompanies + 15, MaxCompanies + 17}}

InitPicker ==
    /\ InitState({FullEnv})
    /\ fnIn \in PickerOutputs

ChooseCompanies ==
    /\ last.op = "start"
    /\ fnOut' = ChooseCompaniesFromScratch(fnIn).companies
    /\ last' = [op |-> "_choose_companies_from_scratch",
                raised |-> ChooseCompaniesFromScratch(fnIn).raised]
    /\ UNCHANGED <<env, rawFile, cleanFile, jobsCache, jobEmbeddings, job_matches, fnIn>>

NextPicker == ChooseCompanies

SpecPicker == InitPicker /\ [][NextPicker]_vars

\* the oracle's output is not valid JSON, or not an object, or an object without a
\* "companies" list
MalformedPick(o) == o.kind # "object" \/ o.companies.t # "list"

\* C27: whenever the company-picking oracle's output is malformed (not valid JSON, valid
\* JSON that is not an object, or an object without a "companies" list),
\* _choose_companies_from_scratch returns the fixed seed list of known employers;
\* otherwise it returns at most 30 non-empty company names.
C27_SeedListOnMalformed ==
    (last.op = "_choose_companies_from_scratch" /\ fnIn.kind # "raise")
    => /\ ~last.raised
       /\ MalformedPick(fnIn) => fnOut = SeedCompanies
       /\ ~MalformedPick(fnIn)
             => /\ Len(fnOut) <= MaxCompanies
                /\ \A i \in 1..Len(fnOut) : fnOut[i] # "" /\ fnOut[i] = StripName(fnOut[i])

-----------------------------------------------------------------------------
(* job_matcher_node run again and again on the state of one session *)

\* runs of the node in one session
MaxRuns == 3

\* the resume profiles of a run: none, a blank one, one without and one with search
\* queries of its own
RerunProfiles ==
    {NoProfile, Profile(" ", "", <<>>), Profile("cv", "python", <<>>),
     Profile("cv", "python", <<"data analyst in Boston">>)}

\* the answers a refresh of a run can get: no posting at all, or one posting
RerunNets == {NoNet, Net(Fetched(<<JS1>>), Fetched(<<>>), Crawled(<<>>)),
              Net(Fetched(<<>>), Fetched(<<AZ1>>), Crawled(<<>>))}

\* the answers of the scoring oracle: none, a list naming a posting, a list naming no
\* posting of any snapshot
RerunOracles ==
    {OracleDown, Resp(ListText(<<Obj("j1", NumScore(95, 100), "strong fit")>>)),
     Resp(ListText(<<Obj("zzz", NumScore(50, 100), "stretch")>>))}

InitRerun == InitState({FullEnv}) /\ fnIn = 0

\* job_matcher_node(state) on the state the previous run left in the session
MatchJobsAgain ==
    /\ fnIn < MaxRuns
    /\ \E rp \in RerunProfiles, oracle \in RerunOracles :
         \E net \in NetsFor(rp.job_search_queries # <<>> \/ LoadWouldRefresh(TheWorld), RerunNets) :
           \E o \in JobMatcherNode(env, TheWorld, job_matches, rp, net, FALSE, FALSE, oracle) :
              /\ SetWorld(o.w)
              /\ job_matches' = o.job_matches
              /\ last' = [op |-> "job_matcher_node", raised |-> o.raised, stage |-> o.stage,
                          candidates |-> o.candidates, events |-> o.events,
                          calls |-> o.calls, at |-> o.at]
              /\ fnIn' = fnIn + 1
              /\ fnOut' = job_matches
              /\ UNCHANGED env

NextRerun == MatchJobsAgain

SpecRerun == InitRerun /\ [][NextRerun]_vars

\* match m is made from one of the candidates
OfCandidates(candidates, m) ==
    \E c \in 1..Len(candidates) :
       candidates[c].job.job_id = m.job_id /\ candidates[c].job.title = m.title

\* C28: after job_matcher_node returns for a state with a non-empty resume, every entry
\* of state.job_matches refers to a posting of the candidate set retrieved in that same
\* run; matches computed by an earlier run never remain in the state after a new run
\* (including a run whose refreshed snapshot yields no candidates).
C28_MatchesOfThisRun ==
    (last.op = "job_matcher_node" /\ ~last.raised /\ last.stage # "no_resume")
    => \A i \in 1..Len(job_matches) : OfCandidates(last.candidates, job_matches[i])

-----------------------------------------------------------------------------
(* The cached posting list under searches and lookups *)

ReadsOfCache == {"get_top_jobs", "get_job_description_by_id"}

\* no posting of the cached list has a "score" key
NoCachedScore ==
    jobsCache.set => \A i \in 1..Len(jobsCache.v) : "score" \notin DOMAIN jobsCache.v[i]

\* a search or lookup leaves a list that is cached as it is, and caches the postings of
\* the snapshot as they were loaded when none is cached
CacheKeptByReads ==
    (last'.op \in ReadsOfCache /\ ~last'.raised)
    => /\ jobsCache.set => jobsCache' = jobsCache
       /\ (~jobsCache.set /\ jobsCache'.set) => jobsCache'.v = JsonLoads(cleanFile'.text)

\* C29: get_top_jobs and get_job_description_by_id leave the cached posting list
\* unchanged: a search attaches "score" to copies of the postings, so after any sequence
\* of searches no cached posting carries a "score" field and the cache's length, order
\* and contents equal those loaded from the snapshot.
C29_SearchLeavesCacheAlone == [][CacheKeptByReads /\ NoCachedScore']_vars

\* a search answered from the cached list returned scored postings
C29_Witness ==
    /\ last.op = "get_top_jobs" /\ ~last.raised
    /\ Len(last.result) >= 2
    /\ \A i \in 1..Len(last.events) : last.events[i] \notin {"read_snapshot", "refresh"}
    /\ jobsCache.set /\ Len(jobsCache.v) >= 2

-----------------------------------------------------------------------------
(* graph/interview_agent.py: evaluate_answer_node on the state of one session *)

\* interview questions of a session
MaxQuestions == 2

\* evaluations in one session
MaxAnswers == 2

\* line 18
MIN_ANSWER_WORDS == 10

\* a value under "score": t is Absent, Null, "number", "numeric_string", "word", "list",
\* "nan" or "inf" (the JSON numbers NaN, Infinity and 1e999 and the strings "nan" and
\* "inf"); tenths is the number, in tenths
RawScore(t, tenths) == [t |-> t, tenths |-> tenths]

\* Python's round() of tenths / 10: to the nearest integer, a half to the even one
RoundHalfEven(tenths) ==
    IF tenths % 10 < 5 THEN tenths \div 10
    ELSE IF tenths % 10 > 5 THEN (tenths \div 10) + 1
    ELSE IF (tenths \div 10) % 2 = 0 THEN tenths \div 10
    ELSE (tenths \div 10) + 1

Clamped(raised, val) == [raised |-> raised, val |-> val]

\* _clamp_score_1_5(raw_score): float(None), float([..]) raise TypeError, float("high")
\* and round(nan) raise ValueError, both caught; round(inf) raises OverflowError
ClampScore(raw_score) ==
    IF raw_score.t = "inf" THEN Clamped(TRUE, 0)
    ELSE IF raw_score.t \in {"number", "numeric_string"}
    THEN Clamped(FALSE, Max(1, Min(5, RoundHalfEven(raw_score.tenths))))
    ELSE Clamped(FALSE, 3)

\* what the feedback oracle answers: kind is "down" (the call raises), "blank", "prose"
\* (no JSON object in it), "list" (valid JSON, not an object) or "dict" with its score
FeedbackAnswer(kind, score) == [kind |-> kind, score |-> score]

\* fb_dict.get("score", 3) of line 369, after _parse_feedback: {} for no content, the
\* score-1 dict of lines 136-141 when no object can be decoded
ScoreOfFeedback(oracle) ==
    IF oracle.kind \in {"down", "blank"} THEN RawScore("number", 30)
    ELSE IF oracle.kind \in {"prose", "list"} THEN RawScore("number", 10)
    ELSE IF oracle.score.t = Absent THEN RawScore("number", 30)
    ELSE oracle.score

\* an InterviewFeedback; the answer is kept as its number of words
Feedback(question, words, score) == [question |-> question, user_answer |-> words, score |-> score]

Session(questions, selected_job_id, history) ==
    [interview_questions |-> questions, selected_job_id |-> selected_job_id,
     feedback_history |-> history]

Evaluated(state, w, raised, calls) == [state |-> state, w |-> w, raised |-> raised, calls |-> calls]

\* lines 357-384: the oracle was asked and the score clamped to c
EvaluateScored(state, w, question_index, words, c) ==
    IF c.raised THEN Evaluated(state, w, TRUE, <<"feedback_oracle">>)
    ELSE Evaluated([state EXCEPT !.feedback_history =
                       Append(@, Feedback(state.interview_questions[question_index + 1],
                                          words, c.val))],
                   w, FALSE, <<"feedback_oracle">>)

\* lines 335-384: the answer is long enough; l is what _load_jobs did for the lookup of
\* the selected posting's description
EvaluateLooked(state, l, question_index, words, oracle) ==
    IF l.raised THEN Evaluated(state, l.w, TRUE, <<>>)
    ELSE EvaluateScored(state, l.w, question_index, words, ClampScore(ScoreOfFeedback(oracle)))

\* evaluate_answer_node(state, question_index, answer); words is
\* len(answer_clean.split())
EvaluateAnswerNode(state, e, w, question_index, words, oracle, net) ==
    IF state.interview_questions = <<>> THEN Evaluated(state, w, FALSE, <<>>)
    ELSE IF question_index < 0 \/ question_index >= Len(state.interview_questions)
    THEN Evaluated(state, w, FALSE, <<>>)
    ELSE IF words < MIN_ANSWER_WORDS
    THEN Evaluated([state EXCEPT !.feedback_history =
                       Append(@, Feedback(state.interview_questions[question_index + 1],
                                          words, 1))],
                   w, FALSE, <<>>)
    ELSE EvaluateLooked(state,
                        IF state.selected_job_id = Null THEN Loaded(w, FALSE, <<>>, <<>>, <<>>)
                        ELSE LoadJobs(e, w, net),
                        question_index, words, oracle)

\* the questions of a session with n questions, each known by its number
Questions(n) == [i \in 1..n |-> i]

\* -7, 0.4, 2.5, 3.5 and 5.6 as JSON numbers, "4.5" as a string
FeedbackScores ==
    {RawScore("number", n) : n \in {-70, 4, 25, 35, 56}} \cup {RawScore("numeric_string", 45)}

FeedbackOracles ==
    {FeedbackAnswer(kind, RawScore(Absent, 0)) : kind \in {"down", "blank", "prose", "dict"}}
    \cup {FeedbackAnswer("dict", RawScore(t, 0)) : t \in {Null, "word", "nan", "inf"}}
    \cup {FeedbackAnswer("dict", score) : score \in FeedbackScores}

AnswerWords == {MIN_ANSWER_WORDS - 1, MIN_ANSWER_WORDS}

\* the answers a refresh started by the lookup can get
EvaluateNets == {NoNet, Net(FetchRaised, Fetched(<<>>), Crawled(<<>>))}

InitEvaluate ==
    /\ env = FullEnv
    /\ rawFile \in {NoRawFile}
    /\ cleanFile \in {NoFile, FileOf(CleanJobsJsearch(<<JS1>>))}
    /\ jobsCache = Unset
    /\ jobEmbeddings = Unset
    /\ job_matches = <<>>
    /\ last = [op |-> "start"]
    /\ fnIn = <<>>
    /\ \E n \in 0..MaxQuestions, selected_job_id \in {Null, "j1"} :
          fnOut = Session(Questions(n), selected_job_id, <<>>)

EvaluateAnswer ==
    /\ Len(fnOut.feedback_history) < MaxAnswers
    /\ \E question_index \in -1..MaxQuestions, words \in AnswerWords, oracle \in FeedbackOracles :
         \E net \in NetsFor(LoadWouldRefresh(TheWorld), EvaluateNets) :
           LET r == EvaluateAnswerNode(fnOut, env, TheWorld, question_index, words, oracle, net)
           IN  /\ fnOut' = r.state
               /\ SetWorld(r.w)
               /\ last' = [op |-> "evaluate_answer_node", question_index |-> question_index,
                           words |-> words, raised |-> r.raised,
                           calls |-> r.calls, before |-> fnOut]
               /\ UNCHANGED <<env, job_matches, fnIn>>

NextEvaluate == EvaluateAnswer

SpecEvaluate == InitEvaluate /\ [][NextEvaluate]_vars

\* the call had questions and an index in range
EvaluatedInRange ==
    /\ last.before.interview_questions # <<>>
    /\ last.question_index >= 0
    /\ last.question_index < Len(last.before.interview_questions)

\* C30: evaluate_answer_node appends exactly one feedback entry when interview questions
\* exist and question_index is in range, and leaves the whole state unchanged otherwise;
\* every appended entry has an integer score in 1..5 for any oracle output, and an answer
\* of fewer than 10 words gets score 1 without calling the oracle.
C30_OneScoredEntry ==
    last.op = "evaluate_answer_node"
    => IF EvaluatedInRange
       THEN /\ ~last.raised
            /\ Len(fnOut.feedback_history) = Len(last.before.feedback_history) + 1
            /\ fnOut = [last.before EXCEPT !.feedback_history =
                           Append(@, fnOut.feedback_history[Len(fnOut.feedback_history)])]
            /\ fnOut.feedback_history[Len(fnOut.feedback_history)].score \in 1..5
            /\ last.words < MIN_ANSWER_WORDS
                  => /\ fnOut.feedback_history[Len(fnOut.feedback_history)].score = 1
                     /\ last.calls = <<>>
       ELSE ~last.raised /\ fnOut = last.before

====
